---- MODULE Spec2Model ----
(***************************************************************************)
(* Model of the GroqService helpers of botcase                             *)
(* (src/src/services/GroqService.ts): the column-letter helpers            *)
(* getColumnIndex / getColumnLetter, the sheet serializer                  *)
(* convertSheetToText and the response extractors parseGroqResponse,       *)
(* parseQueryResponse and parseTestScenarioResponse.                       *)
(*                                                                         *)
(* A JavaScript string is a sequence of one-character strings, one per     *)
(* UTF-16 code unit (Backtick stands for U+0060).  A call ends either by   *)
(* returning a value or by throwing; both outcomes are recorded in the     *)
(* result records.                                                         *)
(***************************************************************************)
EXTENDS Integers, Sequences, FiniteSets, TLC

VARIABLES
  pc,            \* position of the call sequence being followed
  index,         \* getColumnLetter's argument
  columnLetter,  \* getColumnLetter's result / getColumnIndex's argument
  columnIndex,   \* outcome of getColumnIndex
  sheet,         \* convertSheetToText's argument: '!ref' and the cells
  serialized,    \* outcome of convertSheetToText
  rawText,       \* the completion text handed to an extractor
  result,        \* outcome of the extractor
  call,          \* the GroqService operation in progress
  sqlResponse,   \* what generateSQLResponse returned
  messages,      \* ChatInterface: the chat history
  inputValue,    \* ChatInterface: the text of the input box
  isTyping,      \* ChatInterface: the typing indicator
  sqlQueries,    \* App: the generated queries
  files,         \* App: the file list
  isUploading,   \* FileUpload: an upload is being simulated
  isDragOver,    \* FileUpload: a drag is over the drop zone
  clock,         \* milliseconds elapsed, what Date.now() reads
  ticks,         \* the single milliseconds the model has followed so far
  timers,        \* the setTimeout callbacks not yet run, oldest first
  knowledge,     \* App: the knowledge base held, or null
  error,         \* App: the error message shown, or null
  parsingStatus, \* ExcelDocumentParser: isParsing, progress, step, error
  run,           \* the parseExcelFile call in progress and what it did
  expandedSections \* KnowledgeViewer: the sections that are expanded

\* the variables of the GroqService helpers and extractors
helperVars == <<pc, index, columnLetter, columnIndex, sheet, serialized,
                rawText, result>>

\* the variables of App's knowledge base and of ExcelDocumentParser
parserVars == <<knowledge, error, parsingStatus, run, expandedSections>>

\* the variables of the service operations and of the components
appVars == <<call, sqlResponse, messages, inputValue, isTyping, sqlQueries,
             files, isUploading, isDragOver, clock, ticks, timers,
             parserVars>>

vars == <<helperVars, appVars>>

(***************************************************************************)
(* Outcome of a call: it returned value, or it threw an error.             *)
(***************************************************************************)
Return(v) == [kind |-> "return", value |-> v, error |-> "none"]

Throw(e, noValue) == [kind |-> "throw", value |-> noValue, error |-> e]

\* the result variable while no extractor has been called
IdleResult == [kind |-> "none", value |-> <<>>, message |-> <<>>]

\* the sheet variable while no sheet is being serialized
IdleSheet == [ref |-> <<>>, cells |-> << >>]

\* the call variable while no service operation is in progress
IdleCall ==
  [op |-> "none", phase |-> "idle", sent |-> <<>>, received |-> <<>>,
   extractorCalls |-> 0, outcome |-> IdleResult]

\* JSON's and App's null
Null == [t |-> "null", s |-> <<>>, keys |-> <<>>, items |-> <<>>]

\* the run variable while parseExcelFile is not running and has not run
IdleRun ==
  [step |-> "idle", file |-> <<>>, knowledge |-> Null, requested |-> <<>>,
   settled |-> <<>>, callbacks |-> <<>>, number |-> 0]

\* ExcelDocumentParser's useState (part_002 lines 23-27); error is not set
initialParsingStatus ==
  [isParsing |-> FALSE, progress |-> 0, currentStep |-> "Ready to parse",
   error |-> <<>>, hasError |-> FALSE]

\* useState of KnowledgeViewer (FileManager.tsx lines 116-121): the value
\* expandedSections has each time a KnowledgeViewer is mounted
initialExpandedSections ==
  [tables |-> TRUE, requirements |-> TRUE, rules |-> TRUE, scenarios |-> TRUE]

\* App holds no knowledge base and shows no error (App.tsx lines 29-30),
\* and ExcelDocumentParser has parsed nothing
ParserIdle ==
  /\ expandedSections = initialExpandedSections
  /\ knowledge = Null
  /\ error = Null
  /\ parsingStatus = initialParsingStatus
  /\ run = IdleRun

\* no service operation is in progress and no component is mounted
AppIdle ==
  /\ ParserIdle
  /\ call = IdleCall
  /\ sqlResponse = <<>>
  /\ messages = <<>>
  /\ inputValue = <<>>
  /\ isTyping = FALSE
  /\ sqlQueries = <<>>
  /\ files = <<>>
  /\ isUploading = FALSE
  /\ isDragOver = FALSE
  /\ clock = 0
  /\ ticks = 0
  /\ timers = <<>>

(***************************************************************************)
(* Bounds of the column-helper specification.                              *)
(***************************************************************************)
\* largest column index encoded and decoded again (18278 = "ZZZ")
MaxIndex == 18278
\* getColumnLetter is also called on 0 and on the negatives from -MaxNegative
MaxNegative == 2
\* longest letter string handed directly to getColumnIndex
MaxLetters == 2
\* the sheets serialized have columns 1..MaxCol and rows 1..MaxRow
MaxCol == 2
MaxRow == 2
\* at most MaxCells cells of a sheet hold a value
MaxCells == 3
\* a response text is put together from at most MaxPieces pieces
MaxPieces == 4
\* a workbook handed to parseExcelWorkbook has at most MaxSheets sheets
MaxSheets == 2
\* a message handed to generateSQLResponse is put together from at most
\* MaxWords words
MaxWords == 3
\* the clock readings Date.now() may return
MaxNow == 2
\* the clock may advance between any two of the first MaxReads readings one
\* call of parseQueryResponse takes
MaxReads == 4

(***************************************************************************)
(* Characters.                                                             *)
(***************************************************************************)
UpperCase ==
  << "A", "B", "C", "D", "E", "F", "G", "H", "I", "J", "K", "L", "M",
     "N", "O", "P", "Q", "R", "S", "T", "U", "V", "W", "X", "Y", "Z" >>

UpperCaseSet == { UpperCase[k] : k \in 1..26 }

Digits == << "0", "1", "2", "3", "4", "5", "6", "7", "8", "9" >>

DigitSet == { Digits[k] : k \in 1..10 }

\* String.prototype.charCodeAt for the characters the model uses
charCodeAt(c) ==
  IF c \in UpperCaseSet THEN 64 + (CHOOSE k \in 1..26 : UpperCase[k] = c)
  ELSE IF c \in DigitSet THEN 47 + (CHOOSE k \in 1..10 : Digits[k] = c)
  ELSE IF c = "a" THEN 97
  ELSE IF c = "$" THEN 36
  ELSE 58  \* ":"

\* String.fromCharCode for the codes of "A".."Z"
fromCharCode(code) == UpperCase[code - 64]

(***************************************************************************)
(* getColumnIndex (GroqService.ts 252-258): left fold                      *)
(*   index = index * 26 + (columnLetter.charCodeAt(i) - 64)                *)
(* over every character of the argument, whatever the character is.        *)
(***************************************************************************)
\* variant: letters counted from 0 ("A" = 0) instead of from 1
RECURSIVE getColumnIndexLoop_ZeroBased(_, _, _)
getColumnIndexLoop_ZeroBased(letters, i, acc) ==
  IF i < Len(letters)
    THEN getColumnIndexLoop_ZeroBased(letters, i + 1,
                            acc * 26 + (charCodeAt(letters[i + 1]) - 65))
    ELSE acc

RECURSIVE getColumnIndexLoop(_, _, _)
getColumnIndexLoop(letters, i, acc) ==
  IF i < Len(letters)
    THEN getColumnIndexLoop(letters, i + 1,
                            acc * 26 + (charCodeAt(letters[i + 1]) - 64))
    ELSE acc

getColumnIndex(letters) == getColumnIndexLoop(letters, 0, 0)

(***************************************************************************)
(* getColumnLetter (GroqService.ts 260-268): while (index > 0) decrement,  *)
(* prepend the letter of index % 26, divide by 26.                         *)
(***************************************************************************)
\* variant: ordinary base 26, without the decrement of line 263
RECURSIVE getColumnLetterLoop_NoDecrement(_, _)
getColumnLetterLoop_NoDecrement(idx, letter) ==
  IF idx > 0
    THEN getColumnLetterLoop_NoDecrement(idx \div 26,
                                 <<fromCharCode(65 + (idx % 26))>> \o letter)
    ELSE letter

\* variant: each letter appended instead of prepended
RECURSIVE getColumnLetterLoop_Append(_, _)
getColumnLetterLoop_Append(idx, letter) ==
  IF idx > 0
    THEN LET dec == idx - 1
         IN  getColumnLetterLoop_Append(dec \div 26,
                                 letter \o <<fromCharCode(65 + (dec % 26))>>)
    ELSE letter

\* variant: do ... while (index > 0), the body runs at least once
RECURSIVE getColumnLetterLoop_DoWhile(_, _)
getColumnLetterLoop_DoWhile(idx, letter) ==
  IF idx > 0 \/ letter = <<>>
    THEN LET dec == idx - 1
         IN  getColumnLetterLoop_DoWhile(dec \div 26,
                                 <<fromCharCode(65 + (dec % 26))>> \o letter)
    ELSE letter

RECURSIVE getColumnLetterLoop(_, _)
getColumnLetterLoop(idx, letter) ==
  IF idx > 0
    THEN LET dec == idx - 1
         IN  getColumnLetterLoop(dec \div 26,
                                 <<fromCharCode(65 + (dec % 26))>> \o letter)
    ELSE letter

getColumnLetter(idx) == getColumnLetterLoop(idx, <<>>)

(***************************************************************************)
(* Column-helper specification: either an index is encoded and the letters *)
(* decoded again, or a letter string is handed to getColumnIndex directly. *)
(***************************************************************************)
RECURSIVE SeqsUpTo(_, _)
SeqsUpTo(S, n) ==
  IF n = 0 THEN { <<>> }
  ELSE LET shorter == SeqsUpTo(S, n - 1)
       IN  shorter \cup { Append(s, c) : s \in shorter, c \in S }

LetterChars == { "A", "B", "Z", "a", "1", "$" }

InitCol ==
  /\ AppIdle
  /\ columnIndex = Return(0)
  /\ sheet = IdleSheet
  /\ serialized = Return(<<>>)
  /\ rawText = <<>>
  /\ result = IdleResult
  /\ \/ /\ pc = "index"
        /\ index \in (-MaxNegative)..MaxIndex
        /\ columnLetter = <<>>
     \/ /\ pc = "letters"
        /\ index = 0
        /\ columnLetter \in SeqsUpTo(LetterChars, MaxLetters)

\* getColumnLetter(index) is called
EncodeColumn ==
  /\ pc = "index"
  /\ columnLetter' = getColumnLetter(index)
  /\ pc' = "encoded"
  /\ UNCHANGED <<index, columnIndex, sheet, serialized, rawText, result,
               appVars>>

\* getColumnIndex is called on the letters getColumnLetter returned
DecodeColumn ==
  /\ pc = "encoded"
  /\ columnIndex' = Return(getColumnIndex(columnLetter))
  /\ pc' = "roundtrip"
  /\ UNCHANGED <<index, columnLetter, sheet, serialized, rawText, result,
               appVars>>

\* getColumnIndex is called on an arbitrary string
DecodeLetters ==
  /\ pc = "letters"
  /\ columnIndex' = Return(getColumnIndex(columnLetter))
  /\ pc' = "decoded"
  /\ UNCHANGED <<index, columnLetter, sheet, serialized, rawText, result,
               appVars>>

NextCol == EncodeColumn \/ DecodeColumn \/ DecodeLetters

SpecCol == InitCol /\ [][NextCol]_vars

(***************************************************************************)
(* Helpers of convertSheetToText: the library calls it makes.              *)
(***************************************************************************)
\* String.prototype.split(sep) for a one-character separator
RECURSIVE splitLoop(_, _, _, _)
splitLoop(s, sep, i, cur) ==
  IF i > Len(s) THEN << cur >>
  ELSE IF s[i] = sep THEN << cur >> \o splitLoop(s, sep, i + 1, <<>>)
  ELSE splitLoop(s, sep, i + 1, Append(cur, s[i]))

split(s, sep) == splitLoop(s, sep, 1, <<>>)

\* s.match(/[C]+/): the first maximal run of characters of class C;
\* <<>> stands for null (a match of this pattern is never empty)
matchRun(s, class) ==
  IF \A i \in 1..Len(s) : s[i] \notin class THEN <<>>
  ELSE LET first == CHOOSE i \in 1..Len(s) :
                      /\ s[i] \in class
                      /\ \A j \in 1..(i - 1) : s[j] \notin class
           last  == CHOOSE k \in first..Len(s) :
                      /\ \A j \in first..k : s[j] \in class
                      /\ (k = Len(s) \/ s[k + 1] \notin class)
       IN  SubSeq(s, first, last)

\* parseInt of a non-empty string of decimal digits
RECURSIVE parseIntLoop(_, _, _)
parseIntLoop(ds, i, acc) ==
  IF i > Len(ds) THEN acc
  ELSE parseIntLoop(ds, i + 1,
                    acc * 10 + (CHOOSE k \in 0..9 : Digits[k + 1] = ds[i]))

parseInt(ds) == parseIntLoop(ds, 1, 0)

\* String(n) for a natural number n
RECURSIVE numberToString(_)
numberToString(n) ==
  IF n < 10 THEN << Digits[n + 1] >>
  ELSE numberToString(n \div 10) \o << Digits[(n % 10) + 1] >>

(***************************************************************************)
(* A sheet is ['!ref' |-> string, cells |-> address -> cell].  An empty    *)
(* '!ref' stands for a missing one: both are falsy at line 231.  A cell    *)
(* is absent (sheet[address] is undefined), or holds a string or a number  *)
(* in v.                                                                   *)
(***************************************************************************)
AbsentCell == [t |-> "absent", s |-> <<>>, n |-> 0]

StringCell(str) == [t |-> "string", s |-> str, n |-> 0]

NumberCell(num) == [t |-> "number", s |-> <<>>, n |-> num]

\* sheet[cellAddress]
lookup(cells, cellAddress) ==
  IF cellAddress \in DOMAIN cells THEN cells[cellAddress] ELSE AbsentCell

\* `${cell.v}`
cellValueText(cell) ==
  IF cell.t = "string" THEN cell.s ELSE numberToString(cell.n)

(***************************************************************************)
(* convertSheetToText (GroqService.ts 228-250).                            *)
(***************************************************************************)
\* variant: a tab for every cell of the range, present or not
cellText_AlwaysTab(cells, col, row) ==
  LET cellAddress == getColumnLetter(col) \o numberToString(row)
      cell        == lookup(cells, cellAddress)
  IN  IF cell.t # "absent" THEN cellValueText(cell) \o << "\t" >>
      ELSE << "\t" >>

\* lines 240-244: the text one cell adds
cellText(cells, col, row) ==
  LET cellAddress == getColumnLetter(col) \o numberToString(row)
      cell        == lookup(cells, cellAddress)
  IN  IF cell.t # "absent" THEN cellValueText(cell) \o << "\t" >> ELSE <<>>

\* lines 239-245: for (let col = startCol; col <= endCol; col++)
RECURSIVE colLoop(_, _, _, _, _)
colLoop(cells, row, col, endCol, text) ==
  IF col <= endCol
    THEN colLoop(cells, row, col + 1, endCol, text \o cellText(cells, col, row))
    ELSE text

RECURSIVE rowLoop(_, _, _, _, _, _)

\* variant: the row loop tests its condition after the body (do ... while)
rowLoop_DoWhile(cells, row, endRow, startCol, endCol, text) ==
  LET done == colLoop(cells, row, startCol, endCol, text) \o << "\n" >>
  IN  IF row + 1 <= endRow
        THEN rowLoop(cells, row + 1, endRow, startCol, endCol, done)
        ELSE done

\* lines 238-247: for (let row = startRow; row <= endRow; row++)
rowLoop(cells, row, endRow, startCol, endCol, text) ==
  IF row <= endRow
    THEN rowLoop(cells, row + 1, endRow, startCol, endCol,
                 colLoop(cells, row, startCol, endCol, text) \o << "\n" >>)
    ELSE text

convertSheetToText(sh) ==
  LET range == sh.ref
      parts == split(range, ":")
      start == parts[1]
      \* end is undefined when '!ref' has no colon
      endDefined == Len(parts) >= 2
      end == parts[2]
  IN  IF range = <<>> THEN Return(<<>>)
      ELSE IF \/ matchRun(start, UpperCaseSet) = <<>>
              \/ matchRun(start, DigitSet) = <<>>
              \/ ~endDefined
              \/ matchRun(end, UpperCaseSet) = <<>>
              \/ matchRun(end, DigitSet) = <<>>
        THEN Throw("TypeError", <<>>)
      ELSE LET startCol == getColumnIndex(matchRun(start, UpperCaseSet))
               startRow == parseInt(matchRun(start, DigitSet))
               endCol   == getColumnIndex(matchRun(end, UpperCaseSet))
               endRow   == parseInt(matchRun(end, DigitSet))
           IN  Return(rowLoop(sh.cells, startRow, endRow, startCol, endCol, <<>>))

(***************************************************************************)
(* Serializer specification: a sheet over the MaxCol x MaxRow grid with    *)
(* any '!ref' over that grid (a range in either orientation, a single      *)
(* cell written without a colon, or none) is serialized once.              *)
(***************************************************************************)
\* the address the workbook reader writes for column c, row r
Address(c, r) == << UpperCase[c] >> \o << Digits[r + 1] >>

GridAddresses == { Address(c, r) : c \in 1..MaxCol, r \in 1..MaxRow }

RangeRef(sc, sr, ec, er) == Address(sc, sr) \o << ":" >> \o Address(ec, er)

RefInputs ==
  { RangeRef(sc, sr, ec, er) :
      sc \in 1..MaxCol, sr \in 1..MaxRow, ec \in 1..MaxCol, er \in 1..MaxRow }
  \cup GridAddresses \cup { <<>> }

CellInputs == { AbsentCell, StringCell(<< "x" >>), NumberCell(0) }

CellMaps ==
  { cells \in [GridAddresses -> CellInputs] :
      Cardinality({ a \in GridAddresses : cells[a] # AbsentCell }) <= MaxCells }

InitSer ==
  /\ AppIdle
  /\ pc = "sheet"
  /\ sheet \in [ref : RefInputs, cells : CellMaps]
  /\ serialized = Return(<<>>)
  /\ index = 0
  /\ columnLetter = <<>>
  /\ columnIndex = Return(0)
  /\ rawText = <<>>
  /\ result = IdleResult

\* variant: the range is consumed, '!ref' is deleted from the sheet
Serialize_ClearsRef ==
  /\ pc = "sheet"
  /\ serialized' = convertSheetToText(sheet)
  /\ sheet' = [sheet EXCEPT !.ref = <<>>]
  /\ pc' = "serialized"
  /\ UNCHANGED <<index, columnLetter, columnIndex, rawText, result, appVars>>

\* convertSheetToText(sheet) is called: it reads the sheet and returns or throws
Serialize ==
  /\ pc = "sheet"
  /\ serialized' = convertSheetToText(sheet)
  /\ pc' = "serialized"
  /\ UNCHANGED <<index, columnLetter, columnIndex, sheet, rawText, result,
               appVars>>

NextSer == Serialize

SpecSer == InitSer /\ [][NextSer]_vars

(***************************************************************************)
(* Properties of the column helpers.                                       *)
(***************************************************************************)
\* C1: for every n in 1..MaxIndex (18278), decoding the letters that
\* getColumnLetter(n) returns gives n back.
ColumnRoundTrip ==
  (pc = "roundtrip" /\ index >= 1) => columnIndex = Return(index)

\* the largest index, "ZZZ", has been encoded and decoded
ColumnRoundTripWitness ==
  /\ pc = "roundtrip"
  /\ index = 18278
  /\ columnLetter = << "Z", "Z", "Z" >>
  /\ columnIndex.value = 18278

\* C2: getColumnLetter spells bijective base 26: 1 is A, 26 is Z, 27 is AA,
\* 52 is AZ, 702 is ZZ and 703 is AAA.
ColumnKnownValues ==
  pc = "encoded" =>
    /\ (index = 1   => columnLetter = << "A" >>)
    /\ (index = 26  => columnLetter = << "Z" >>)
    /\ (index = 27  => columnLetter = << "A", "A" >>)
    /\ (index = 52  => columnLetter = << "A", "Z" >>)
    /\ (index = 702 => columnLetter = << "Z", "Z" >>)
    /\ (index = 703 => columnLetter = << "A", "A", "A" >>)

\* index 52 has been encoded
ColumnKnownValuesWitness ==
  /\ pc = "encoded"
  /\ index = 52
  /\ Len(columnLetter) = 2

IsUpperCaseString(str) ==
  /\ str # <<>>
  /\ \A i \in 1..Len(str) : str[i] \in UpperCaseSet

\* C11 as the specification states it: getColumnLetter fails for every
\* index <= 0, it returns a letter string only for index >= 1.
ColumnLetterRejectsNonPositive ==
  pc = "encoded" => index >= 1

\* C11 amended: getColumnLetter never fails: for every index <= 0 it
\* returns the empty string, and for every index >= 1 a non-empty string
\* of letters A-Z.
ColumnLetterOfNonPositiveIsEmpty ==
  pc = "encoded" =>
    /\ (index <= 0 => columnLetter = <<>>)
    /\ (index >= 1 => IsUpperCaseString(columnLetter))

\* getColumnLetter(-1) has returned the empty string
ColumnLetterOfNonPositiveIsEmptyWitness ==
  /\ pc = "encoded"
  /\ index = -1
  /\ columnLetter = <<>>

\* C10 as the specification states it: getColumnIndex fails with
\* InvalidFormat on an empty string and on a string with a character
\* outside A-Z.
ColumnIndexRejectsBadFormat ==
  (pc = "decoded" /\ ~IsUpperCaseString(columnLetter)) =>
    (columnIndex.kind = "throw" /\ columnIndex.error = "InvalidFormat")

\* C10 amended: getColumnIndex never fails; it returns an integer for
\* every string: 0 for the empty string, the column number (at least 1,
\* spelled back by getColumnLetter) for a non-empty string of A-Z, and for
\* other characters the same fold with the character's code minus 64 as
\* the digit ("a" gives 33, "1" gives -15, "A$" gives -2).
ColumnIndexNeverFails ==
  pc = "decoded" =>
    /\ columnIndex.kind = "return"
    /\ (columnLetter = <<>> => columnIndex.value = 0)
    /\ (columnLetter = << "a" >> => columnIndex.value = 33)
    /\ (columnLetter = << "1" >> => columnIndex.value = -15)
    /\ (columnLetter = << "A", "$" >> => columnIndex.value = -2)
    /\ (IsUpperCaseString(columnLetter) =>
          /\ columnIndex.value >= 1
          /\ getColumnLetter(columnIndex.value) = columnLetter)

\* a lower-case letter has been decoded without a failure
ColumnIndexNeverFailsWitness ==
  /\ pc = "decoded"
  /\ columnLetter = << "a" >>
  /\ columnIndex = Return(33)

(***************************************************************************)
(* Properties of the serializer.                                           *)
(***************************************************************************)
\* the string form of a cell value, read off the cell
ValueString(cell) ==
  IF cell.t = "string" THEN cell.s ELSE << Digits[cell.n + 1] >>

\* row r of the serialized text: columns c..ec ascending, value and tab for
\* a present cell, nothing for an absent one
RECURSIVE SerializedCells(_, _, _, _)
SerializedCells(cells, r, c, ec) ==
  IF c > ec THEN <<>>
  ELSE (IF cells[Address(c, r)].t = "absent" THEN <<>>
        ELSE ValueString(cells[Address(c, r)]) \o << "\t" >>)
       \o SerializedCells(cells, r, c + 1, ec)

\* rows r..er ascending, one newline after each
RECURSIVE SerializedRows(_, _, _, _, _)
SerializedRows(cells, sc, r, ec, er) ==
  IF r > er THEN <<>>
  ELSE SerializedCells(cells, r, sc, ec) \o << "\n" >>
       \o SerializedRows(cells, sc, r + 1, ec, er)

Newlines(k) == [i \in 1..k |-> "\n"]

\* C3: over a range start <= end the text is, row by row ascending and
\* column by column ascending, value and tab for each present cell, nothing
\* for an absent one, and a newline after each row; a sheet holding only
\* A1 = "x" gives "x\t\n\n" over A1:B2, and a range without a present cell
\* gives one newline per row and no tab.
SerializeRowMajor ==
  pc = "serialized" =>
    \A sc \in 1..MaxCol, ec \in 1..MaxCol, sr \in 1..MaxRow, er \in 1..MaxRow :
      (sc <= ec /\ sr <= er /\ sheet.ref = RangeRef(sc, sr, ec, er)) =>
        /\ serialized = Return(SerializedRows(sheet.cells, sc, sr, ec, er))
        /\ ( ( /\ sheet.ref = RangeRef(1, 1, 2, 2)
               /\ \A a \in GridAddresses :
                    sheet.cells[a] = IF a = Address(1, 1)
                                       THEN StringCell(<< "x" >>)
                                       ELSE AbsentCell )
             => serialized.value = << "x", "\t", "\n", "\n" >> )
        /\ ( (\A c \in sc..ec, r \in sr..er :
                 sheet.cells[Address(c, r)] = AbsentCell)
             => serialized.value = Newlines(er - sr + 1) )

\* the sheet holding only A1 = "x" has been serialized over A1:B2
SerializeRowMajorWitness ==
  /\ pc = "serialized"
  /\ sheet.ref = RangeRef(1, 1, 2, 2)
  /\ sheet.cells[Address(1, 1)] = StringCell(<< "x" >>)
  /\ \A a \in GridAddresses \ { Address(1, 1) } : sheet.cells[a] = AbsentCell
  /\ serialized = Return(<< "x", "\t", "\n", "\n" >>)

\* C9 as the specification states it: a range whose start is not
\* component-wise <= its end makes the serializer fail with InvalidRange.
SerializeRejectsInvertedRange ==
  pc = "serialized" =>
    \A sc \in 1..MaxCol, ec \in 1..MaxCol, sr \in 1..MaxRow, er \in 1..MaxRow :
      ((sc > ec \/ sr > er) /\ sheet.ref = RangeRef(sc, sr, ec, er)) =>
        (serialized.kind = "throw" /\ serialized.error = "InvalidRange")

\* C9 amended: the serializer does not fail on an inverted range: when
\* start.row > end.row it returns the empty text, and when start.row <=
\* end.row but start.column > end.column it returns one newline per row
\* and nothing else.
SerializeInvertedRange ==
  pc = "serialized" =>
    \A sc \in 1..MaxCol, ec \in 1..MaxCol, sr \in 1..MaxRow, er \in 1..MaxRow :
      ((sc > ec \/ sr > er) /\ sheet.ref = RangeRef(sc, sr, ec, er)) =>
        /\ serialized.kind = "return"
        /\ (sr > er => serialized.value = <<>>)
        /\ (sr <= er => serialized.value = Newlines(er - sr + 1))

\* B2:A1 over a sheet with A1 and B2 present has been serialized
SerializeInvertedRangeWitness ==
  /\ pc = "serialized"
  /\ sheet.ref = RangeRef(2, 2, 1, 1)
  /\ sheet.cells[Address(1, 1)] # AbsentCell
  /\ sheet.cells[Address(2, 2)] # AbsentCell
  /\ serialized = Return(<<>>)

\* C14: convertSheetToText never mutates its argument: after the call the
\* '!ref' of the sheet and every cell are what they were before it.
SerializeKeepsSheet ==
  [][pc' = "serialized" => sheet' = sheet]_vars

\* a sheet with a present and an absent cell has been serialized over A1:B1
SerializeKeepsSheetWitness ==
  /\ pc = "serialized"
  /\ sheet.ref = RangeRef(1, 1, 2, 1)
  /\ sheet.cells[Address(1, 1)] = NumberCell(0)
  /\ sheet.cells[Address(2, 1)] = AbsentCell
  /\ serialized = Return(<< "0", "\t", "\n" >>)

\* C12: a range whose start equals its end (the workbook reader writes the
\* '!ref' of such a range as the one address, "A1"; "A1:A1" names it too)
\* yields exactly one row: the cell's value, a tab and a newline when the
\* cell is present, just a newline when it is absent.
SerializeSingleCell ==
  pc = "serialized" =>
    \A c \in 1..MaxCol, r \in 1..MaxRow :
      sheet.ref \in { Address(c, r), RangeRef(c, r, c, r) } =>
        serialized =
          Return(IF sheet.cells[Address(c, r)] = AbsentCell
                   THEN << "\n" >>
                   ELSE ValueString(sheet.cells[Address(c, r)])
                          \o << "\t", "\n" >>)

(***************************************************************************)
(* JSON.parse, over the characters of the model: white space, the three    *)
(* literals, numbers, strings without escape sequences (no input of the    *)
(* model holds a backslash), arrays and objects.  A parsed value is        *)
(*   [t |-> type, s |-> text of a string or number,                        *)
(*    keys |-> member names of an object, items |-> elements or members].  *)
(***************************************************************************)
Val(t, str, keys, items) == [t |-> t, s |-> str, keys |-> keys, items |-> items]

Undefined == Val("undefined", <<>>, <<>>, <<>>)

JsonWhiteSpace == { " ", "\t", "\n", "\r" }

ControlChars == { "\t", "\n", "\r", "\f" }

NoParse == [ok |-> FALSE, pos |-> 0, val |-> Undefined]

Parsed(v, next) == [ok |-> TRUE, pos |-> next, val |-> v]

\* the first position from i on that holds no character of class
runEnd(str, i, class) ==
  CHOOSE j \in i..(Len(str) + 1) :
    /\ \A k \in i..(j - 1) : str[k] \in class
    /\ (j = Len(str) + 1 \/ str[j] \notin class)

skipWhiteSpace(str, i) == runEnd(str, i, JsonWhiteSpace)

\* pat occurs in str at position i
occursAt(str, pat, i) ==
  /\ i >= 1
  /\ i + Len(pat) - 1 <= Len(str)
  /\ SubSeq(str, i, i + Len(pat) - 1) = pat

charAt(str, i) == IF i >= 1 /\ i <= Len(str) THEN str[i] ELSE "EOF"

(***************************************************************************)
(* Numbers.  JSON.parse turns a number token into a double, and the text   *)
(* of a number, in a template and in JSON.stringify, is the text of that   *)
(* double: numberText gives it for the token.  The digits of the token     *)
(* are the digits of the double for tokens of at most 15 significant       *)
(* digits whose value is a normal double, zero or beyond the range; a      *)
(* longer token, or a value in the subnormal range, is written with the    *)
(* digits of the token, where JavaScript writes the digits of the nearest  *)
(* double.                                                                 *)
(***************************************************************************)
\* the value of a decimal digit
digitValue(c) == CHOOSE d \in 0..9 : Digits[d + 1] = c

\* digits without its leading zeros
RECURSIVE stripLeadingZeros(_)
stripLeadingZeros(digits) ==
  IF digits # <<>> /\ digits[1] = "0" THEN stripLeadingZeros(Tail(digits))
  ELSE digits

\* digits without its trailing zeros
RECURSIVE stripTrailingZeros(_)
stripTrailingZeros(digits) ==
  IF digits # <<>> /\ digits[Len(digits)] = "0"
    THEN stripTrailingZeros(SubSeq(digits, 1, Len(digits) - 1))
  ELSE digits

\* the number a digit string of at most four digits spells
RECURSIVE digitsToNat(_)
digitsToNat(digits) ==
  IF digits = <<>> THEN 0
  ELSE 10 * digitsToNat(SubSeq(digits, 1, Len(digits) - 1))
         + digitValue(digits[Len(digits)])

\* the exponent a token spells; beyond four digits every exponent is out
\* of the range of a double
exponentValue(negative, digits) ==
  LET significant == stripLeadingZeros(digits)
      magnitude   == IF Len(significant) > 4 THEN 10000
                     ELSE digitsToNat(significant)
  IN  IF negative THEN 0 - magnitude ELSE magnitude

\* a and b are digit strings without trailing zeros: 0.a < 0.b
fractionLess(a, b) ==
  \/ \E k \in 1..Len(a) :
       /\ k <= Len(b)
       /\ \A j \in 1..(k - 1) : a[j] = b[j]
       /\ digitValue(a[k]) < digitValue(b[k])
  \/ /\ Len(a) < Len(b)
     /\ \A j \in 1..Len(a) : a[j] = b[j]

\* the first digits of 2^-1075 = 2.47...e-324: what is at most this
\* rounds to zero
HalfMinValueDigits ==
  << "2", "4", "7", "0", "3", "2", "8", "2", "2", "9", "2", "0", "6",
     "2", "3", "2", "7", "2", "0", "8", "8", "2", "8", "4", "3", "9",
     "6", "4", "3", "4", "1", "1", "0", "6", "8", "6", "1", "8", "2",
     "5", "2", "9", "9", "0", "1", "3", "0", "7" >>

\* the first digits of 2^1024 - 2^970 = 1.797...e308: what is at least
\* this rounds to Infinity
OverflowDigits ==
  << "1", "7", "9", "7", "6", "9", "3", "1", "3", "4", "8", "6", "2",
     "3", "1", "5", "8", "0", "7", "9", "3", "7", "2", "8", "9", "7",
     "1", "4", "0", "5", "3", "0", "3", "4", "1", "5", "0", "7", "9",
     "9", "3", "4", "1", "3", "2", "7", "1", "0" >>

\* k zeros
zeros(k) == [i \in 1..k |-> "0"]

\* Number::toString of the double digits * 10^(point - Len(digits)),
\* digits having neither leading nor trailing zeros
positiveNumberText(digits, point) ==
  IF Len(digits) <= point /\ point <= 21
    THEN digits \o zeros(point - Len(digits))
  ELSE IF 0 < point /\ point <= 21
    THEN SubSeq(digits, 1, point) \o << "." >>
           \o SubSeq(digits, point + 1, Len(digits))
  ELSE IF -6 < point /\ point <= 0
    THEN << "0", "." >> \o zeros(0 - point) \o digits
  ELSE << digits[1] >>
         \o (IF Len(digits) > 1
               THEN << "." >> \o SubSeq(digits, 2, Len(digits)) ELSE <<>>)
         \o << "e" >>
         \o (IF point - 1 < 0
               THEN << "-" >> \o numberToString(1 - point)
               ELSE << "+" >> \o numberToString(point - 1))

InfinityText == << "I", "n", "f", "i", "n", "i", "t", "y" >>

\* String(JSON.parse(token)) for the token -?int(.frac)?([eE][+-]?exp)?
numberText(negative, int, frac, expNegative, exp) ==
  LET all    == int \o frac
      digits == stripTrailingZeros(stripLeadingZeros(all))
      point  == Len(int) - (Len(all) - Len(stripLeadingZeros(all)))
                  + exponentValue(expNegative, exp)
      sign   == IF negative THEN << "-" >> ELSE <<>>
  IN  IF digits = <<>> THEN << "0" >>
      ELSE IF point < -323 THEN << "0" >>
      ELSE IF point = -323 /\ fractionLess(digits, HalfMinValueDigits)
        THEN << "0" >>
      ELSE IF point > 309 THEN sign \o InfinityText
      ELSE IF point = 309 /\ ~fractionLess(digits, OverflowDigits)
        THEN sign \o InfinityText
      ELSE sign \o positiveNumberText(digits, point)

parseLiteral(str, i) ==
  IF occursAt(str, << "t", "r", "u", "e" >>, i)
    THEN Parsed(Val("true", <<>>, <<>>, <<>>), i + 4)
  ELSE IF occursAt(str, << "f", "a", "l", "s", "e" >>, i)
    THEN Parsed(Val("false", <<>>, <<>>, <<>>), i + 5)
  ELSE IF occursAt(str, << "n", "u", "l", "l" >>, i)
    THEN Parsed(Val("null", <<>>, <<>>, <<>>), i + 4)
  ELSE NoParse

\* -? (0 | [1-9][0-9]*) (. [0-9]+)? ([eE] [+-]? [0-9]+)?
parseNumber(str, i) ==
  LET intStart == IF charAt(str, i) = "-" THEN i + 1 ELSE i
      intEnd   == IF charAt(str, intStart) = "0" THEN intStart + 1
                  ELSE runEnd(str, intStart, DigitSet)
      hasFrac  == charAt(str, intEnd) = "."
      fracEnd  == IF hasFrac THEN runEnd(str, intEnd + 1, DigitSet) ELSE intEnd
      hasExp   == charAt(str, fracEnd) \in { "e", "E" }
      expStart == IF charAt(str, fracEnd + 1) \in { "+", "-" }
                    THEN fracEnd + 2 ELSE fracEnd + 1
      expEnd   == IF hasExp THEN runEnd(str, expStart, DigitSet) ELSE fracEnd
  IN  IF intEnd = intStart THEN NoParse
      ELSE IF hasFrac /\ fracEnd = intEnd + 1 THEN NoParse
      ELSE IF hasExp /\ expEnd = expStart THEN NoParse
      ELSE Parsed(Val("number",
                      numberText(intStart > i,
                                 SubSeq(str, intStart, intEnd - 1),
                                 IF hasFrac THEN SubSeq(str, intEnd + 1, fracEnd - 1)
                                 ELSE <<>>,
                                 hasExp /\ charAt(str, fracEnd + 1) = "-",
                                 IF hasExp THEN SubSeq(str, expStart, expEnd - 1)
                                 ELSE <<>>),
                      <<>>, <<>>),
                  expEnd)

\* " characters ", no control character and no escape between the quotes
parseString(str, i) ==
  IF charAt(str, i) # "\"" THEN NoParse
  ELSE LET close == runEnd(str, i + 1, { str[k] : k \in 1..Len(str) } \ { "\"" })
       IN  IF close > Len(str) THEN NoParse
           ELSE IF \E k \in (i + 1)..(close - 1) :
                     str[k] \in ControlChars \cup { "\\" }
             THEN NoParse
           ELSE Parsed(Val("string", SubSeq(str, i + 1, close - 1), <<>>, <<>>),
                       close + 1)

\* a and b are digit strings without leading zeros: a < b as numbers
digitsLess(a, b) ==
  \/ Len(a) < Len(b)
  \/ /\ Len(a) = Len(b)
     /\ \E k \in 1..Len(a) :
          /\ \A j \in 1..(k - 1) : a[j] = b[j]
          /\ digitValue(a[k]) < digitValue(b[k])

\* 2^32 - 2, the largest array index
MaxArrayIndexText == << "4", "2", "9", "4", "9", "6", "7", "2", "9", "4" >>

\* key is an array index: the canonical decimal text of an integer of
\* 0 .. 2^32 - 2.  The own keys of an object enumerate the array indices
\* first, in ascending order, then the other keys in the order of creation
isArrayIndex(key) ==
  /\ Len(key) >= 1
  /\ \A k \in 1..Len(key) : key[k] \in DigitSet
  /\ key[1] = "0" => Len(key) = 1
  /\ ~digitsLess(MaxArrayIndexText, key)

\* the position a new key takes among keys
keyPosition(keys, key) ==
  IF isArrayIndex(key)
    THEN 1 + Cardinality({ k \in 1..Len(keys) :
                             isArrayIndex(keys[k]) /\ digitsLess(keys[k], key) })
    ELSE Len(keys) + 1

\* seq with x put in at position at
insertAt(seq, at, x) ==
  [i \in 1..(Len(seq) + 1) |->
     IF i < at THEN seq[i] ELSE IF i = at THEN x ELSE seq[i - 1]]

\* an object member: a later member of the same name replaces the value
\* in place, a new member takes its place in the property order
putMember(obj, key, v) ==
  IF \E k \in 1..Len(obj.keys) : obj.keys[k] = key
    THEN LET at == CHOOSE k \in 1..Len(obj.keys) : obj.keys[k] = key
         IN  Val("object", <<>>, obj.keys, [obj.items EXCEPT ![at] = v])
    ELSE Val("object", <<>>,
             insertAt(obj.keys, keyPosition(obj.keys, key), key),
             insertAt(obj.items, keyPosition(obj.keys, key), v))

RECURSIVE parseValue(_, _)
RECURSIVE parseElements(_, _, _)
RECURSIVE parseMembers(_, _, _)

\* the elements of an array from position i (after "[" or ","), arr so far
parseElements(str, i, arr) ==
  LET elem  == parseValue(str, i)
      after == skipWhiteSpace(str, elem.pos)
      more  == Val("array", <<>>, <<>>, Append(arr.items, elem.val))
  IN  IF ~elem.ok THEN NoParse
      ELSE IF charAt(str, after) = "," THEN parseElements(str, after + 1, more)
      ELSE IF charAt(str, after) = "]" THEN Parsed(more, after + 1)
      ELSE NoParse

\* the members of an object from position i (after "{" or ","), obj so far
parseMembers(str, i, obj) ==
  LET key   == parseString(str, skipWhiteSpace(str, i))
      colon == skipWhiteSpace(str, key.pos)
      v     == parseValue(str, colon + 1)
      after == skipWhiteSpace(str, v.pos)
      more  == putMember(obj, key.val.s, v.val)
  IN  IF ~key.ok THEN NoParse
      ELSE IF charAt(str, colon) # ":" THEN NoParse
      ELSE IF ~v.ok THEN NoParse
      ELSE IF charAt(str, after) = "," THEN parseMembers(str, after + 1, more)
      ELSE IF charAt(str, after) = "}" THEN Parsed(more, after + 1)
      ELSE NoParse

\* one value, after optional white space, from position i
parseValue(str, i) ==
  LET at == skipWhiteSpace(str, i)
      c  == charAt(str, at)
  IN  IF c = "{"
        THEN IF charAt(str, skipWhiteSpace(str, at + 1)) = "}"
               THEN Parsed(Val("object", <<>>, <<>>, <<>>),
                           skipWhiteSpace(str, at + 1) + 1)
               ELSE parseMembers(str, at + 1, Val("object", <<>>, <<>>, <<>>))
      ELSE IF c = "["
        THEN IF charAt(str, skipWhiteSpace(str, at + 1)) = "]"
               THEN Parsed(Val("array", <<>>, <<>>, <<>>),
                           skipWhiteSpace(str, at + 1) + 1)
               ELSE parseElements(str, at + 1, Val("array", <<>>, <<>>, <<>>))
      ELSE IF c = "\"" THEN parseString(str, at)
      ELSE IF c \in DigitSet \cup { "-" } THEN parseNumber(str, at)
      ELSE parseLiteral(str, at)

\* the value v read from str is followed by white space only
wholeText(str, v) ==
  IF v.ok /\ skipWhiteSpace(str, v.pos) > Len(str) THEN v ELSE NoParse

\* JSON.parse(str): the whole text is one value between white space;
\* ok = FALSE stands for the SyntaxError it throws
JSONparse(str) == wholeText(str, parseValue(str, 1))

(***************************************************************************)
(* The extraction shared by parseGroqResponse, parseQueryResponse and      *)
(* parseTestScenarioResponse (GroqService.ts 305-309, 319-323, 341-345).   *)
(***************************************************************************)
\* the characters \s matches, among those a TLA+ string can spell
RegexWhiteSpace == { " ", "\t", "\n", "\r", "\f" }

\* U+0060, which a TLA+ string cannot spell, is written as a token
Backtick == "BACKTICK"

Fence == << Backtick, Backtick, Backtick >>

JsonTag == << "j", "s", "o", "n" >>

NoMatch == [found |-> FALSE, group |-> <<>>]

\* response.match(/```tag\s*([\s\S]*?)\s*```/) for tag "json" or "":
\* the match starts at the leftmost opener that a later fence closes;
\* \s* takes the white space after the opener, the lazy group stops at the
\* first position from which white space leads to a fence.
\* found = FALSE stands for null; group is capture group 1.
closesAt(response, e) ==
  occursAt(response, Fence, runEnd(response, e, RegexWhiteSpace))

captureGroup(response, groupStart) ==
  [found |-> TRUE,
   group |-> SubSeq(response, groupStart,
                    (CHOOSE e \in groupStart..Len(response) :
                       /\ closesAt(response, e)
                       /\ \A d \in groupStart..(e - 1) :
                            ~closesAt(response, d)) - 1)]

matchAt(response, opener, starts) ==
  IF starts = {} THEN NoMatch
  ELSE captureGroup(response,
         runEnd(response,
                (CHOOSE a \in starts : \A b \in starts : a <= b)
                  + Len(opener),
                RegexWhiteSpace))

matchFence(response, tag) ==
  matchAt(response, Fence \o tag,
          { i \in 1..Len(response) :
              /\ occursAt(response, Fence \o tag, i)
              /\ \E k \in (i + Len(Fence \o tag))..Len(response) :
                   occursAt(response, Fence, k) })

\* jsonMatch[1] of match(json fence) || match(fence) || [null, whole]
jsonMatch1(tagged, plain, whole) ==
  IF tagged.found THEN tagged.group
  ELSE IF plain.found THEN plain.group
  ELSE whole

\* group || response: an empty string is falsy
orResponse(group, response) == IF group # <<>> THEN group ELSE response

\* variant: the whole response is used only when no fence matches, an
\* empty capture group is kept
jsonString_NoEmptyFallback(response) ==
  jsonMatch1(matchFence(response, JsonTag), matchFence(response, <<>>),
             response)

\* variant: a block that does not parse is passed over for the next attempt
firstParsing(tagged, plain, response) ==
  IF tagged.found /\ JSONparse(tagged.group).ok THEN tagged.group
  ELSE IF plain.found /\ JSONparse(plain.group).ok THEN plain.group
  ELSE response

jsonString_TryEach(response) ==
  firstParsing(matchFence(response, JsonTag), matchFence(response, <<>>),
               response)

\* variant: without a fence, the text from the first "{" to the last "}"
\* is taken out of the surrounding prose
betweenBraces(response, braces) ==
  IF braces = {} THEN response
  ELSE SubSeq(response, CHOOSE a \in braces : \A b \in braces : a <= b,
                        CHOOSE a \in braces : \A b \in braces : a >= b)

jsonString_BraceSearch(response) ==
  orResponse(jsonMatch1(matchFence(response, JsonTag),
                        matchFence(response, <<>>),
                        betweenBraces(response,
                          { i \in 1..Len(response) :
                              response[i] \in { "{", "}" } })),
             response)

\* jsonMatch = match(json fence) || match(fence) || [null, response];
\* jsonString = jsonMatch[1] || response
jsonString(response) ==
  orResponse(jsonMatch1(matchFence(response, JsonTag),
                        matchFence(response, <<>>), response),
             response)

(***************************************************************************)
(* Outcome of an extractor: the value returned, or the Error thrown,       *)
(* which holds a message and nothing else.                                 *)
(***************************************************************************)
Returned(v) == [kind |-> "return", value |-> v, message |-> <<>>]

Thrown(message) == [kind |-> "throw", value |-> Undefined, message |-> message]

SyntaxErrorMessage ==
  << "S", "y", "n", "t", "a", "x", "E", "r", "r", "o", "r" >>

TypeErrorMessage == << "T", "y", "p", "e", "E", "r", "r", "o", "r" >>

\* 'Invalid response format from Groq' (line 313)
InvalidResponseFormat ==
  << "I", "n", "v", "a", "l", "i", "d", " ", "r", "e", "s", "p", "o", "n",
     "s", "e", " ", "f", "o", "r", "m", "a", "t", " ", "f", "r", "o", "m",
     " ", "G", "r", "o", "q" >>

\* 'Invalid query response format' (line 335)
InvalidQueryResponseFormat ==
  << "I", "n", "v", "a", "l", "i", "d", " ", "q", "u", "e", "r", "y", " ",
     "r", "e", "s", "p", "o", "n", "s", "e", " ", "f", "o", "r", "m", "a",
     "t" >>

\* 'Invalid test scenario response format' (line 349)
InvalidTestScenarioResponseFormat ==
  << "I", "n", "v", "a", "l", "i", "d", " ", "t", "e", "s", "t", " ", "s",
     "c", "e", "n", "a", "r", "i", "o", " ", "r", "e", "s", "p", "o", "n",
     "s", "e", " ", "f", "o", "r", "m", "a", "t" >>

\* return JSON.parse(jsonString): the value, or the SyntaxError of the parse
parseOutcome(parsed) ==
  IF parsed.ok THEN Returned(parsed.val) ELSE Thrown(SyntaxErrorMessage)

\* lines 305-310 and 341-346, the body of the try block
extractBody(response) == parseOutcome(JSONparse(jsonString(response)))

\* catch (error) { throw new Error(message) } around a body
catch(body, message) ==
  IF body.kind = "throw" THEN Thrown(message) ELSE body

\* variant: the failure hands the raw response back instead of a fixed text
parseGroqResponse_KeepsRaw(response) ==
  catch(extractBody(response), response)

\* variant: no try/catch, the fault of JSON.parse escapes
parseGroqResponse_NoCatch(response) == extractBody(response)

\* parseGroqResponse (lines 302-315)
parseGroqResponse(response) ==
  catch(extractBody(response), InvalidResponseFormat)

\* parseTestScenarioResponse (lines 339-351)
parseTestScenarioResponse(response) ==
  catch(extractBody(response), InvalidTestScenarioResponseFormat)

(***************************************************************************)
(* parseQueryResponse (lines 317-337): the same extraction, then           *)
(* queries.map(...) over the parsed value.                                 *)
(***************************************************************************)
\* value.name of a parsed value that is neither null nor undefined
getProperty(v, name) ==
  IF v.t = "object" /\ \E k \in 1..Len(v.keys) : v.keys[k] = name
    THEN v.items[CHOOSE k \in 1..Len(v.keys) : v.keys[k] = name]
    ELSE Undefined

\* the number whose text is tok is 0 or -0: its token spelled zero, or a
\* value too small for a double
isZeroToken(tok) == tok = << "0" >>

\* the values that || passes over
isFalsy(v) ==
  \/ v.t \in { "undefined", "null", "false" }
  \/ (v.t = "string" /\ v.s = <<>>)
  \/ (v.t = "number" /\ isZeroToken(v.s))

\* `query_${Date.now()}_${index}`
generatedId(now, i) ==
  << "q", "u", "e", "r", "y", "_" >> \o numberToString(now)
    \o << "_" >> \o numberToString(i)

QueryKeys ==
  << << "i", "d" >>,
     << "q", "u", "e", "r", "y" >>,
     << "d", "e", "s", "c", "r", "i", "p", "t", "i", "o", "n" >>,
     << "c", "a", "t", "e", "g", "o", "r", "y" >>,
     << "t", "i", "m", "e", "s", "t", "a", "m", "p" >> >>

\* the readings of the clock one call takes, in the order it takes them:
\* each is at or after the one before
ClockReadings ==
  { nows \in [1..MaxReads -> 1..MaxNow] :
      \A j \in 1..(MaxReads - 1) : nows[j] <= nows[j + 1] }

\* the j-th reading of a call whose readings are nows; the clock does not
\* advance after the last one listed
reading(nows, j) == nows[IF j < Len(nows) THEN j ELSE Len(nows)]

\* lines 326-332, the callback of map for element query at index i;
\* Date.now() of line 327 reads idNow (when id is falsy) and new Date() of
\* line 331 reads stampNow
mapQuery(query, i, idNow, stampNow) ==
  LET id       == getProperty(query, QueryKeys[1])
      category == getProperty(query, QueryKeys[4])
  IN  Val("object", <<>>, QueryKeys,
          << IF isFalsy(id)
               THEN Val("string", generatedId(idNow, i), <<>>, <<>>) ELSE id,
             getProperty(query, QueryKeys[2]),
             getProperty(query, QueryKeys[3]),
             IF isFalsy(category)
               THEN Val("string", << "S", "E", "L", "E", "C", "T" >>, <<>>, <<>>)
               ELSE category,
             Val("date", numberToString(stampNow), <<>>, <<>>) >>)

\* lines 324-332, queries.map(...) over the outcome of JSON.parse; the
\* callback reads the clock for each element in turn, nows are the readings
mapQueries(parsed, nows) ==
  IF ~parsed.ok THEN Thrown(SyntaxErrorMessage)
  \* queries.map is not a function
  ELSE IF parsed.val.t # "array" THEN Thrown(TypeErrorMessage)
  \* query.id of a null element
  ELSE IF \E k \in 1..Len(parsed.val.items) : parsed.val.items[k].t = "null"
    THEN Thrown(TypeErrorMessage)
  ELSE Returned(Val("array", <<>>, <<>>,
                    [k \in 1..Len(parsed.val.items) |->
                       mapQuery(parsed.val.items[k], k - 1,
                                reading(nows, 2 * k - 1),
                                reading(nows, 2 * k))]))

\* lines 319-332, the body of the try block
parseQueryBody(response, nows) ==
  mapQueries(JSONparse(jsonString(response)), nows)

\* parseQueryResponse (lines 317-337)
parseQueryResponse(response, nows) ==
  catch(parseQueryBody(response, nows), InvalidQueryResponseFormat)

(***************************************************************************)
(* Extractor specification: a response text put together from at most      *)
(* MaxPieces pieces is handed to one of the three extractors.              *)
(***************************************************************************)
\* {"a":1}
ObjectText == << "{", "\"", "a", "\"", ":", "1", "}" >>

\* [{"a":1}]
ArrayText == << "[" >> \o ObjectText \o << "]" >>

\* the opener of a json-tagged block
JsonFence == Fence \o JsonTag

Pieces ==
  { Fence, JsonFence, << "\"" >>, ObjectText, ArrayText, << " " >>, << "x" >> }

RECURSIVE Texts(_)
Texts(n) ==
  IF n = 0 THEN { <<>> }
  ELSE LET shorter == Texts(n - 1)
       IN  shorter \cup { t \o p : t \in shorter, p \in Pieces }

InitExt ==
  /\ AppIdle
  /\ pc = "response"
  /\ rawText \in Texts(MaxPieces)
  /\ result = IdleResult
  /\ index = 0
  /\ columnLetter = <<>>
  /\ columnIndex = Return(0)
  /\ sheet = IdleSheet
  /\ serialized = Return(<<>>)

ParseGroqResponse ==
  /\ pc = "response"
  /\ result' = parseGroqResponse(rawText)
  /\ pc' = "parseGroqResponse"
  /\ UNCHANGED <<index, columnLetter, columnIndex, sheet, serialized, rawText,
               appVars>>

ParseQueryResponse ==
  /\ pc = "response"
  /\ \E nows \in ClockReadings : result' = parseQueryResponse(rawText, nows)
  /\ pc' = "parseQueryResponse"
  /\ UNCHANGED <<index, columnLetter, columnIndex, sheet, serialized, rawText,
               appVars>>

ParseTestScenarioResponse ==
  /\ pc = "response"
  /\ result' = parseTestScenarioResponse(rawText)
  /\ pc' = "parseTestScenarioResponse"
  /\ UNCHANGED <<index, columnLetter, columnIndex, sheet, serialized, rawText,
               appVars>>

NextExt == ParseGroqResponse \/ ParseQueryResponse \/ ParseTestScenarioResponse

SpecExt == InitExt /\ [][NextExt]_vars

(***************************************************************************)
(* Properties of the extractors.                                           *)
(***************************************************************************)
Called ==
  pc \in { "parseGroqResponse", "parseQueryResponse",
           "parseTestScenarioResponse" }

\* the message of the Error the called extractor throws in its catch block
FixedMessage ==
  IF pc = "parseGroqResponse" THEN InvalidResponseFormat
  ELSE IF pc = "parseQueryResponse" THEN InvalidQueryResponseFormat
  ELSE InvalidTestScenarioResponseFormat

\* text holds a block: an opener and, after it, a closing fence
HasBlock(text, opener) ==
  \E i \in 1..Len(text) :
    /\ occursAt(text, opener, i)
    /\ \E k \in (i + Len(opener))..Len(text) : occursAt(text, Fence, k)

\* the text strictly between the first such opener and the next fence
Interior(text, opener) ==
  LET i == CHOOSE a \in 1..Len(text) :
             /\ occursAt(text, opener, a)
             /\ \A b \in 1..(a - 1) : ~occursAt(text, opener, b)
      from == i + Len(opener)
      k == CHOOSE a \in from..Len(text) :
             /\ occursAt(text, Fence, a)
             /\ \A b \in from..(a - 1) : ~occursAt(text, Fence, b)
  IN  SubSeq(text, from, k - 1)

\* text without the white space at its two ends
Trim(text) ==
  IF \A i \in 1..Len(text) : text[i] \in RegexWhiteSpace THEN <<>>
  ELSE LET first == CHOOSE i \in 1..Len(text) :
                      /\ text[i] \notin RegexWhiteSpace
                      /\ \A j \in 1..(i - 1) : text[j] \in RegexWhiteSpace
           last  == CHOOSE i \in 1..Len(text) :
                      /\ text[i] \notin RegexWhiteSpace
                      /\ \A j \in (i + 1)..Len(text) : text[j] \in RegexWhiteSpace
       IN  SubSeq(text, first, last)

\* the candidate as the specification describes it
ClaimedCandidate(text) ==
  IF HasBlock(text, Fence \o JsonTag) THEN Interior(text, Fence \o JsonTag)
  ELSE IF HasBlock(text, Fence) THEN Interior(text, Fence)
  ELSE text

\* the candidate with the two amendments: the interior is trimmed, and an
\* empty one gives way to the whole text
AmendedCandidate(text) ==
  IF Trim(ClaimedCandidate(text)) = <<>> THEN text
  ELSE Trim(ClaimedCandidate(text))

\* the outcome is the JSON parse of candidate: its value, or a failure
IsParseOf(candidate) ==
  IF JSONparse(candidate).ok
    THEN result = Returned(JSONparse(candidate).val)
    ELSE result.kind = "throw"

\* C4 as the specification states it: the extractor never raises, it
\* always returns a success or a failure value to its caller.
ExtractNeverRaises ==
  Called => result.kind = "return"

\* C4 amended: for every string the extractor either returns the parsed
\* value or throws one Error with its fixed message ('Invalid response
\* format from Groq', 'Invalid query response format', 'Invalid test
\* scenario response format'); no other fault (the SyntaxError of
\* JSON.parse, a TypeError) reaches the caller.
ExtractThrowsOnlyFixedError ==
  Called => (result.kind = "return" \/ result = Thrown(FixedMessage))

\* a text with an unbalanced json fence has made parseGroqResponse throw
ExtractThrowsOnlyFixedErrorWitness ==
  /\ pc = "parseGroqResponse"
  /\ rawText = Fence \o JsonTag \o ObjectText
  /\ result = Thrown(InvalidResponseFormat)

\* C5 as the specification states it: the candidate is the interior of the
\* first json-tagged block, else of the first plain block, else the whole
\* text, and the result is the JSON parse of that candidate.
ExtractParsesClaimedCandidate ==
  pc \in { "parseGroqResponse", "parseTestScenarioResponse" } =>
    IsParseOf(ClaimedCandidate(rawText))

\* C5 amended: the candidate is the interior of the first json-tagged
\* block, else of the first plain block, with the white space around it
\* removed, and the whole text when there is no block or when that trimmed
\* interior is empty; the result is the JSON parse of that candidate.
ExtractParsesChosenCandidate ==
  pc \in { "parseGroqResponse", "parseTestScenarioResponse" } =>
    IsParseOf(AmendedCandidate(rawText))

\* a JSON string holding an empty fenced block has been parsed as a whole
ExtractParsesChosenCandidateWitness ==
  /\ pc = "parseGroqResponse"
  /\ rawText = << "\"" >> \o Fence \o Fence \o << "\"" >>
  /\ result = Returned(Val("string", Fence \o Fence, <<>>, <<>>))

\* the value {a: 1}
ObjectValue ==
  Val("object", <<>>, << << "a" >> >>, << Val("number", << "1" >>, <<>>, <<>>) >>)

\* words and blanks, at most two characters
Prose == SeqsUpTo({ " ", "x" }, 2)

HasWord(text) == \E i \in 1..Len(text) : text[i] = "x"

\* C6 as the specification states it: without a fenced block, a JSON value
\* surrounded by prose is recovered: the extractor returns {a: 1}.
ExtractRecoversJsonInProse ==
  pc = "parseGroqResponse" =>
    \A pre \in Prose, post \in Prose :
      (rawText = pre \o ObjectText \o post /\ (HasWord(pre) \/ HasWord(post)))
        => result = Returned(ObjectValue)

\* C6 amended: without a fenced block the whole text is handed to
\* JSON.parse, so a JSON value with prose words before or after it makes
\* the extractor fail with its fixed Error; the value is returned only when
\* nothing but JSON white space surrounds it.
ExtractRejectsJsonInProse ==
  pc = "parseGroqResponse" =>
    \A pre \in Prose, post \in Prose :
      rawText = pre \o ObjectText \o post =>
        IF HasWord(pre) \/ HasWord(post)
          THEN result = Thrown(InvalidResponseFormat)
          ELSE result = Returned(ObjectValue)

\* 'x {"a":1}x' has made parseGroqResponse throw
ExtractRejectsJsonInProseWitness ==
  /\ pc = "parseGroqResponse"
  /\ rawText = << "x", " " >> \o ObjectText \o << "x" >>
  /\ result = Thrown(InvalidResponseFormat)

\* C7 as the specification states it: when the candidate does not parse,
\* the failure carries the original raw text unchanged.
ExtractFailureCarriesRawText ==
  (pc = "parseGroqResponse" /\ ~JSONparse(jsonString(rawText)).ok) =>
    (result.kind = "throw" /\ result.message = rawText)

\* C7 amended: when the candidate does not parse, the extractor throws an
\* Error that holds only the extractor's fixed message; neither the raw
\* text nor the candidate is in it.
ExtractFailureIsFixedMessage ==
  (Called /\ ~JSONparse(jsonString(rawText)).ok) =>
    /\ result.kind = "throw"
    /\ result.message = FixedMessage
    /\ result.message # rawText
    /\ result.message # jsonString(rawText)
    /\ result.value = Undefined

\* 'x x' has made parseGroqResponse throw its fixed message
ExtractFailureIsFixedMessageWitness ==
  /\ pc = "parseGroqResponse"
  /\ rawText = << "x", " ", "x" >>
  /\ result.kind = "throw"
  /\ result.message = InvalidResponseFormat

\* C8 as the specification states it: when one of the three attempts (the
\* interior of a json-tagged block, the interior of a plain block, the
\* whole text) parses as JSON, the result is a success.
ExtractSucceedsIfAnyAttemptParses ==
  pc = "parseGroqResponse" =>
    ( ( \/ ( /\ HasBlock(rawText, Fence \o JsonTag)
             /\ JSONparse(Interior(rawText, Fence \o JsonTag)).ok )
        \/ ( /\ HasBlock(rawText, Fence)
             /\ JSONparse(Interior(rawText, Fence)).ok )
        \/ JSONparse(rawText).ok )
      => result.kind = "return" )

\* C8 amended: the attempts are not tried in turn: the extractor fails
\* exactly when the one candidate chosen first-match-wins does not parse,
\* also when another block or the whole text would; parseQueryResponse
\* fails as well when the parsed candidate is not an array or has a null
\* element.
ExtractFailsIffChosenCandidateFails ==
  LET chosen == JSONparse(AmendedCandidate(rawText))
  IN  /\ pc \in { "parseGroqResponse", "parseTestScenarioResponse" } =>
           (result.kind = "throw" <=> ~chosen.ok)
      /\ pc = "parseQueryResponse" =>
           (result.kind = "throw" <=>
              \/ ~chosen.ok
              \/ chosen.val.t # "array"
              \/ \E k \in 1..Len(chosen.val.items) :
                   chosen.val.items[k].t = "null")

\* a plain block holding {"a":1} is followed by an empty json block: the
\* plain block would parse, the extractor has failed
ExtractFailsIffChosenCandidateFailsWitness ==
  /\ pc = "parseGroqResponse"
  /\ rawText = Fence \o ObjectText \o Fence \o JsonTag \o Fence
  /\ JSONparse(Interior(rawText, Fence)).ok
  /\ result.kind = "throw"

(***************************************************************************)
(* ChatInterface.generateSQLResponse (part_003 37-74): the first scenario  *)
(* of the table one of whose trigger words the lower-cased message         *)
(* includes, or the default query.  The message and the trigger words are  *)
(* sequences of characters; a query and a description are never taken      *)
(* apart and are kept as strings.                                          *)
(***************************************************************************)
LowerCase ==
  << "a", "b", "c", "d", "e", "f", "g", "h", "i", "j", "k", "l", "m",
     "n", "o", "p", "q", "r", "s", "t", "u", "v", "w", "x", "y", "z" >>

\* String.prototype.toLowerCase, over the characters of the model
toLowerCase(str) ==
  [i \in 1..Len(str) |->
     IF str[i] \in UpperCaseSet THEN LowerCase[charCodeAt(str[i]) - 64]
     ELSE str[i]]

\* String.prototype.includes
includes(str, searchString) ==
  \E i \in 1..(Len(str) + 1) : occursAt(str, searchString, i)

\* the scenarios table (lines 38-64)
scenarios ==
  <<
     [trigger |->
           << << "s", "e", "l", "e", "c", "t" >>,
              << "a", "l", "l" >>,
              << "d", "a", "t", "a" >>,
              << "r", "e", "c", "o", "r", "d", "s" >> >>,
      query |->
        "SELECT * FROM user_data ORDER BY created_date DESC;",
      description |->
        "This query retrieves all records from your dataset, ordered by creation date."],
     [trigger |->
           << << "c", "o", "u", "n", "t" >>,
              << "t", "o", "t", "a", "l" >>,
              << "n", "u", "m", "b", "e", "r" >> >>,
      query |->
        "SELECT COUNT(*) as total_records FROM user_data WHERE status = \"active\";",
      description |->
        "This query counts all active records in your dataset."],
     [trigger |->
           << << "a", "v", "e", "r", "a", "g", "e" >>,
              << "a", "v", "g" >>,
              << "m", "e", "a", "n" >> >>,
      query |->
        "SELECT AVG(amount) as average_amount FROM user_data WHERE amount > 0;",
      description |->
        "This calculates the average amount from non-zero values."],
     [trigger |->
           << << "g", "r", "o", "u", "p" >>,
              << "c", "a", "t", "e", "g", "o", "r", "y" >>,
              << "b", "r", "e", "a", "k", "d", "o", "w", "n" >> >>,
      query |->
        "SELECT category, COUNT(*) as count, SUM(amount) as total FROM user_data GROUP BY category ORDER BY total DESC;",
      description |->
        "This groups your data by category with counts and totals."],
     [trigger |->
           << << "d", "u", "p", "l", "i", "c", "a", "t", "e" >>,
              << "d", "u", "p", "l", "i", "c", "a", "t", "e", " ", "r", "e", "c", "o", "r", "d", "s" >> >>,
      query |->
        "SELECT email, COUNT(*) as duplicates FROM user_data GROUP BY email HAVING COUNT(*) > 1;",
      description |->
        "This finds duplicate records based on email address."] >>

\* the object of lines 70-73
defaultResponse ==
  [query |->
     "SELECT column_name, data_type FROM information_schema.columns WHERE table_name = \"user_data\";",
   description |->
     "This query shows the structure of your data table."]

\* variant: the message is searched as typed, without toLowerCase
someTrigger_CaseSensitive(scenario, userMessage) ==
  \E t \in 1..Len(scenario.trigger) :
    includes(userMessage, scenario.trigger[t])

\* scenario.trigger.some(trigger => userMessage.toLowerCase().includes(trigger))
someTrigger(scenario, userMessage) ==
  \E t \in 1..Len(scenario.trigger) :
    includes(toLowerCase(userMessage), scenario.trigger[t])

\* scenarios.find(...) from index k on; found = FALSE stands for undefined
RECURSIVE find(_, _)
find(userMessage, k) ==
  IF k > Len(scenarios) THEN [found |-> FALSE, scenario |-> defaultResponse]
  ELSE IF someTrigger(scenarios[k], userMessage)
    THEN [found |-> TRUE, scenario |-> scenarios[k]]
  ELSE find(userMessage, k + 1)

\* matchedScenario || { query, description }
orDefault(matchedScenario) ==
  IF matchedScenario.found THEN matchedScenario.scenario ELSE defaultResponse

generateSQLResponse(userMessage) == orDefault(find(userMessage, 1))

(***************************************************************************)
(* Query-generation specification: generateSQLResponse is called once on   *)
(* a message: one of the documented example requests, or at most MaxWords  *)
(* words strung together.                                                  *)
(***************************************************************************)
\* the example requests of "Supported Scenarios", in the order of the table
DocumentedRequests ==
  << << "S", "h", "o", "w", " ", "m", "e", " ", "a", "l", "l", " ", "r",
        "e", "c", "o", "r", "d", "s" >>,
     << "H", "o", "w", " ", "m", "a", "n", "y", " ", "r", "e", "c", "o",
        "r", "d", "s", " ", "a", "r", "e", " ", "t", "h", "e", "r", "e",
        "?" >>,
     << "W", "h", "a", "t", "'", "s", " ", "t", "h", "e", " ", "a", "v",
        "e", "r", "a", "g", "e", " ", "a", "m", "o", "u", "n", "t", "?" >>,
     << "B", "r", "e", "a", "k", " ", "d", "o", "w", "n", " ", "b", "y",
        " ", "c", "a", "t", "e", "g", "o", "r", "y" >>,
     << "F", "i", "n", "d", " ", "d", "u", "p", "l", "i", "c", "a", "t",
        "e", " ", "r", "e", "c", "o", "r", "d", "s" >> >>

Words ==
  { << "R", "e", "c", "o", "r", "d", "s" >>,
    << "c", "o", "u", "n", "t" >>,
    << "M", "E", "A", "N" >>,
    << "c", "a", "t", "e", "g", "o", "r", "y" >>,
    << "d", "u", "p", "l", "i", "c", "a", "t", "e" >>,
    << "z", "z" >>,
    << " " >> }

RECURSIVE WordTexts(_)
WordTexts(n) ==
  IF n = 0 THEN { <<>> }
  ELSE LET shorter == WordTexts(n - 1)
       IN  shorter \cup { t \o w : t \in shorter, w \in Words }

UserMessages ==
  WordTexts(MaxWords) \cup { DocumentedRequests[k] : k \in 1..Len(DocumentedRequests) }

\* the sqlResponse variable while generateSQLResponse has not been called
NoResponse == [query |-> "", description |-> ""]

\* the helpers and extractors are not in use
HelperIdle ==
  /\ index = 0
  /\ columnLetter = <<>>
  /\ columnIndex = Return(0)
  /\ sheet = IdleSheet
  /\ serialized = Return(<<>>)
  /\ rawText = <<>>
  /\ result = IdleResult

InitSql ==
  /\ HelperIdle
  /\ pc = "userMessage"
  /\ call = IdleCall
  /\ sqlResponse = NoResponse
  /\ messages = <<>>
  /\ inputValue \in UserMessages
  /\ isTyping = FALSE
  /\ sqlQueries = <<>>
  /\ files = <<>>
  /\ isUploading = FALSE
  /\ isDragOver = FALSE
  /\ clock = 0
  /\ ticks = 0
  /\ timers = <<>>
  /\ ParserIdle

\* generateSQLResponse(inputValue) is called
GenerateSQLResponse ==
  /\ pc = "userMessage"
  /\ sqlResponse' = generateSQLResponse(inputValue)
  /\ pc' = "generateSQLResponse"
  /\ UNCHANGED <<index, columnLetter, columnIndex, sheet, serialized, rawText,
                 result, call, messages, inputValue, isTyping, sqlQueries,
                 files, isUploading, isDragOver, clock, ticks, timers,
                 parserVars>>

NextSql == GenerateSQLResponse

SpecSql == InitSql /\ [][NextSql]_vars

\* C18: each documented example request yields the query of its documented
\* scenario: the k-th request of "Supported Scenarios" the k-th query.
DocumentedRequestsYieldTheirQuery ==
  pc = "generateSQLResponse" =>
    \A k \in 1..Len(DocumentedRequests) :
      inputValue = DocumentedRequests[k] =>
        sqlResponse.query = scenarios[k].query

\* the scenarios one of whose trigger words is a substring of the
\* lower-cased message
Triggered(userMessage) ==
  { k \in 1..Len(scenarios) :
      \E t \in 1..Len(scenarios[k].trigger), i \in 1..Len(userMessage) :
        /\ i + Len(scenarios[k].trigger[t]) - 1 <= Len(userMessage)
        /\ \A j \in 1..Len(scenarios[k].trigger[t]) :
             toLowerCase(<< userMessage[i + j - 1] >>)[1]
               = scenarios[k].trigger[t][j] }

\* C19: generateSQLResponse returns the first scenario, in table order, one
\* of whose trigger words occurs in the lower-cased message as a substring,
\* and the default table-structure query when there is none.
GeneratesFirstTriggeredScenario ==
  pc = "generateSQLResponse" =>
    LET triggered == Triggered(inputValue)
    IN  IF triggered = {} THEN sqlResponse = defaultResponse
        ELSE \E k \in triggered :
               /\ \A h \in triggered : k <= h
               /\ sqlResponse = scenarios[k]

\* "MEANduplicate" has yielded the average query, the earlier of the two
\* scenarios it triggers
GeneratesFirstTriggeredScenarioWitness ==
  /\ pc = "generateSQLResponse"
  /\ inputValue = << "M", "E", "A", "N" >> \o << "d", "u", "p", "l", "i", "c", "a", "t", "e" >>
  /\ sqlResponse = scenarios[3]

(***************************************************************************)
(* The three operations of GroqService (GroqService.ts 89-208).  Each      *)
(* builds the text of its request, awaits groq.chat.completions.create     *)
(* and hands the content of the first choice to its extractor, all inside  *)
(* one try block whose catch throws the operation's fixed Error.           *)
(***************************************************************************)
\* the system message of lines 97-109
ParseWorkbookPrompt ==
  "You are a SQL expert and data analyst. Parse this Excel workbook and extract:\n            1. Table specifications (column names, data types, constraints)\n            2. Functional requirements and business rules\n            3. Data transformation rules\n            4. Test scenarios and validation rules\n\n            Return the analysis in JSON format with the following structure:\n            {\n              \"tableSpecifications\": [...],\n              \"functionalRequirements\": [...],\n              \"businessRules\": [...],\n              \"testScenarios\": [...]\n            }"

\* the system message of lines 141-154
GenerateQueriesPrompt ==
  "You are a SQL expert. Based on the provided knowledge base, generate SQL queries for the user's request.\n            Consider the table specifications, business rules, and functional requirements.\n\n            Return queries in JSON format:\n            [\n              {\n                \"id\": \"unique_id\",\n                \"query\": \"SQL_QUERY\",\n                \"description\": \"What this query does\",\n                \"category\": \"SELECT|INSERT|UPDATE|DELETE|VALIDATION\"\n              }\n            ]"

\* the system message of lines 178-191
GenerateTestScenariosPrompt ==
  "You are a QA expert. Based on the provided knowledge base, generate comprehensive test scenarios.\n            Include data validation, business rule testing, and edge cases.\n\n            Return test scenarios in JSON format:\n            [\n              {\n                \"id\": \"unique_id\",\n                \"name\": \"Test Scenario Name\",\n                \"description\": \"What this test validates\",\n                \"testQueries\": [...],\n                \"expectedResults\": \"Expected outcome\"\n              }\n            ]"

\* 'Failed to parse Excel workbook' (line 125)
FailedToParseExcelWorkbook ==
  << "F", "a", "i", "l", "e", "d", " ", "t", "o", " ", "p", "a", "r", "s",
    "e", " ", "E", "x", "c", "e", "l", " ", "w", "o", "r", "k", "b", "o",
    "o", "k" >>

\* 'Failed to generate queries' (line 168)
FailedToGenerateQueries ==
  << "F", "a", "i", "l", "e", "d", " ", "t", "o", " ", "g", "e", "n", "e",
    "r", "a", "t", "e", " ", "q", "u", "e", "r", "i", "e", "s" >>

\* 'Failed to generate test scenarios' (line 206)
FailedToGenerateTestScenarios ==
  << "F", "a", "i", "l", "e", "d", " ", "t", "o", " ", "g", "e", "n", "e",
    "r", "a", "t", "e", " ", "t", "e", "s", "t", " ", "s", "c", "e", "n",
    "a", "r", "i", "o", "s" >>

\* the Error the catch block of operation op throws
FailureMessage(op) ==
  IF op = "parseExcelWorkbook" THEN FailedToParseExcelWorkbook
  ELSE IF op = "generateQueries" THEN FailedToGenerateQueries
  ELSE FailedToGenerateTestScenarios

(***************************************************************************)
(* convertWorkbookToText (lines 210-226).  A workbook is                   *)
(*   [SheetNames |-> names, Sheets |-> the sheet of each name, in order];  *)
(* the reader gives every workbook its SheetNames and a sheet per name.    *)
(***************************************************************************)
RECURSIVE sheetsLoop(_, _, _)

\* text += `\nSheet: ${sheetName}\n`; text += this.convertSheetToText(sheet)
appendSheet(workbookData, k, text, sheetText) ==
  IF sheetText.kind = "throw" THEN sheetText
  ELSE sheetsLoop(workbookData, k + 1,
         text \o << "\n", "S", "h", "e", "e", "t", ":", " " >>
              \o workbookData.SheetNames[k] \o << "\n" >> \o sheetText.value)

\* workbookData.SheetNames.forEach(...) from the k-th name on
sheetsLoop(workbookData, k, text) ==
  IF k > Len(workbookData.SheetNames) THEN Return(text)
  ELSE appendSheet(workbookData, k, text,
                   convertSheetToText(workbookData.Sheets[k]))

convertWorkbookToText(workbookData) ==
  sheetsLoop(workbookData, 1,
    << "W", "o", "r", "k", "b", "o", "o", "k", " ", "c", "o", "n", "t", "a",
    "i", "n", "s", " " >>
      \o numberToString(Len(workbookData.SheetNames))
      \o << " ", "s", "h", "e", "e", "t", "s", ":", "\n" >>)

(***************************************************************************)
(* String conversion of a parsed value: `${value}` and                     *)
(* JSON.stringify(value, null, 2).  The numbers of the model are written   *)
(* the way JavaScript prints them, so a number converts to its own text.   *)
(***************************************************************************)
RECURSIVE toStringThrows(_)

\* `${v}` throws a TypeError: v is an object with a member named toString,
\* which hides Object.prototype.toString and is not a function, while
\* valueOf gives no primitive; or v is an array that joins such an object
toStringThrows(v) ==
  \/ /\ v.t = "object"
     /\ \E k \in 1..Len(v.keys) :
          v.keys[k] = << "t", "o", "S", "t", "r", "i", "n", "g" >>
  \/ /\ v.t = "array"
     /\ \E k \in 1..Len(v.items) :
          /\ v.items[k].t \notin { "null", "undefined" }
          /\ toStringThrows(v.items[k])

RECURSIVE templateString(_)
RECURSIVE joinItems(_, _)

\* Array.prototype.join(",") from the k-th element on
joinItems(elements, k) ==
  IF k > Len(elements) THEN <<>>
  ELSE (IF k > 1 THEN << "," >> ELSE <<>>)
         \o (IF elements[k].t \in { "null", "undefined" } THEN <<>>
             ELSE templateString(elements[k]))
         \o joinItems(elements, k + 1)

\* `${v}` of a value on which it does not throw
templateString(v) ==
  IF v.t \in { "string", "number" } THEN v.s
  ELSE IF v.t = "true" THEN << "t", "r", "u", "e" >>
  ELSE IF v.t = "false" THEN << "f", "a", "l", "s", "e" >>
  ELSE IF v.t = "null" THEN << "n", "u", "l", "l" >>
  ELSE IF v.t = "undefined"
    THEN << "u", "n", "d", "e", "f", "i", "n", "e", "d" >>
  ELSE IF v.t = "array" THEN joinItems(v.items, 1)
  ELSE << "[", "o", "b", "j", "e", "c", "t", " ", "O", "b", "j", "e", "c", "t",
       "]" >>

RECURSIVE stringify(_, _)
RECURSIVE stringifyItems(_, _, _)
RECURSIVE stringifyMembers(_, _, _)

\* the elements of an array from the k-th on, each on a line of its own
stringifyItems(v, k, gap) ==
  gap \o stringify(v.items[k], gap)
    \o (IF k < Len(v.items)
          THEN << ",", "\n" >> \o stringifyItems(v, k + 1, gap)
          ELSE <<>>)

\* the members of an object from the k-th on, each on a line of its own
stringifyMembers(v, k, gap) ==
  gap \o << "\"" >> \o v.keys[k] \o << "\"", ":", " " >>
    \o stringify(v.items[k], gap)
    \o (IF k < Len(v.keys)
          THEN << ",", "\n" >> \o stringifyMembers(v, k + 1, gap)
          ELSE <<>>)

\* JSON.stringify(v, null, 2) of a value nested inside indentation gap
stringify(v, gap) ==
  IF v.t = "string" THEN << "\"" >> \o v.s \o << "\"" >>
  ELSE IF v.t = "array"
    THEN IF v.items = <<>> THEN << "[", "]" >>
         ELSE << "[", "\n" >> \o stringifyItems(v, 1, gap \o << " ", " " >>)
                \o << "\n" >> \o gap \o << "]" >>
  ELSE IF v.t = "object"
    THEN IF v.keys = <<>> THEN << "{", "}" >>
         ELSE << "{", "\n" >> \o stringifyMembers(v, 1, gap \o << " ", " " >>)
                \o << "\n" >> \o gap \o << "}" >>
  \* an infinite number is written null
  ELSE IF v.t = "number" /\ v.s \in { InfinityText, << "-" >> \o InfinityText }
    THEN << "n", "u", "l", "l" >>
  ELSE templateString(v)

JSONstringify(v) == stringify(v, <<>>)

(***************************************************************************)
(* buildContext (lines 270-300).  Reading a property of null or undefined  *)
(* and calling forEach or slice on a value that has none is a TypeError.   *)
(***************************************************************************)
\* a property of v can be read
canRead(v) == v.t \notin { "null", "undefined" }

\* v.name.forEach(...) can run: v.name is an array whose elements can be read
canEach(v, name) ==
  /\ canRead(v)
  /\ getProperty(v, name).t = "array"
  /\ \A k \in 1..Len(getProperty(v, name).items) :
       canRead(getProperty(v, name).items[k])

\* a template of lines 276-291 throws on one of the members names of item
cannotWrite(item, names) ==
  \E k \in 1..Len(names) : toStringThrows(getProperty(item, names[k]))

\* line 278, one column
columnLine(col) ==
  << " ", " ", "-", " " >> \o templateString(getProperty(col, << "n", "a", "m", "e" >>))
    \o << ":", " " >> \o templateString(getProperty(col, << "d", "a", "t", "a", "T", "y", "p", "e" >>))
    \o (IF isFalsy(getProperty(col, << "i", "s", "P", "r", "i", "m", "a", "r", "y", "K", "e", "y" >>))
          THEN <<>> ELSE << " ", "(", "P", "K", ")" >>)
    \o (IF isFalsy(getProperty(col, << "i", "s", "N", "u", "l", "l", "a", "b", "l", "e" >>))
          THEN <<>> ELSE << " ", "(", "n", "u", "l", "l", "a", "b", "l", "e", ")" >>)
    \o << "\n" >>

RECURSIVE columnLines(_, _)
columnLines(columns, k) ==
  IF k > Len(columns) THEN <<>>
  ELSE columnLine(columns[k]) \o columnLines(columns, k + 1)

\* lines 275-280, from the k-th table on
RECURSIVE tableLines(_, _, _)
tableLines(tables, k, context) ==
  IF k > Len(tables) THEN Return(context)
  ELSE IF ~canEach(tables[k], << "c", "o", "l", "u", "m", "n", "s" >>)
    THEN Throw("TypeError", <<>>)
  ELSE IF cannotWrite(tables[k], << << "t", "a", "b", "l", "e", "N", "a", "m", "e" >> >>)
    THEN Throw("TypeError", <<>>)
  ELSE IF \E c \in 1..Len(getProperty(tables[k], << "c", "o", "l", "u", "m", "n", "s" >>).items) :
            cannotWrite(getProperty(tables[k], << "c", "o", "l", "u", "m", "n", "s" >>).items[c],
                        << << "n", "a", "m", "e" >>,
                           << "d", "a", "t", "a", "T", "y", "p", "e" >> >>)
    THEN Throw("TypeError", <<>>)
  ELSE tableLines(tables, k + 1,
         context \o << "-", " ", "T", "a", "b", "l", "e", ":", " " >>
           \o templateString(getProperty(tables[k], << "t", "a", "b", "l", "e", "N", "a", "m", "e" >>))
           \o << "\n" >>
           \o columnLines(getProperty(tables[k], << "c", "o", "l", "u", "m", "n", "s" >>).items, 1))

\* lines 284-286 and 290-292: `- ${item.first}: ${item.second}\n` per item
RECURSIVE pairLines(_, _, _, _)
pairLines(list, k, first, second) ==
  IF k > Len(list) THEN <<>>
  ELSE << "-", " " >> \o templateString(getProperty(list[k], first))
         \o << ":", " " >> \o templateString(getProperty(list[k], second))
         \o << "\n" >> \o pairLines(list, k + 1, first, second)

\* seq.slice(0, end)
slice(seq, end) == SubSeq(seq, 1, IF Len(seq) < end THEN Len(seq) ELSE end)

\* lines 294-297
uploadedSample(context, uploadedData) ==
  IF isFalsy(uploadedData) THEN Return(context)
  ELSE IF uploadedData.t = "array"
    THEN Return(context \o << "\n", "U", "p", "l", "o", "a", "d", "e", "d", " ",
                      "D", "a", "t", "a", " ", "S", "a", "m", "p", "l", "e",
                      ":", "\n" >>
           \o JSONstringify([uploadedData EXCEPT
                !.items = slice(uploadedData.items, 5)]))
  ELSE IF uploadedData.t = "string"
    THEN Return(context \o << "\n", "U", "p", "l", "o", "a", "d", "e", "d", " ",
                      "D", "a", "t", "a", " ", "S", "a", "m", "p", "l", "e",
                      ":", "\n" >>
           \o JSONstringify([uploadedData EXCEPT
                !.s = slice(uploadedData.s, 5)]))
  ELSE Throw("TypeError", <<>>)

\* lines 282-297, after the tables
afterTables(context, knowledgeBase, uploadedData) ==
  IF context.kind = "throw" THEN context
  ELSE IF ~canEach(knowledgeBase, << "b", "u", "s", "i", "n", "e", "s", "s", "R", "u", "l", "e", "s" >>)
    THEN Throw("TypeError", <<>>)
  ELSE IF ~canEach(knowledgeBase, << "f", "u", "n", "c", "t", "i", "o", "n", "a", "l", "R", "e", "q", "u", "i", "r", "e", "m", "e", "n", "t", "s" >>)
    THEN Throw("TypeError", <<>>)
  ELSE IF \E k \in 1..Len(getProperty(knowledgeBase, << "b", "u", "s", "i", "n", "e", "s", "s", "R", "u", "l", "e", "s" >>).items) :
            cannotWrite(getProperty(knowledgeBase, << "b", "u", "s", "i", "n", "e", "s", "s", "R", "u", "l", "e", "s" >>).items[k],
                        << << "r", "u", "l", "e" >>,
                           << "s", "q", "l", "C", "o", "n", "d", "i", "t", "i", "o", "n" >> >>)
    THEN Throw("TypeError", <<>>)
  ELSE IF \E k \in 1..Len(getProperty(knowledgeBase, << "f", "u", "n", "c", "t", "i", "o", "n", "a", "l", "R", "e", "q", "u", "i", "r", "e", "m", "e", "n", "t", "s" >>).items) :
            cannotWrite(getProperty(knowledgeBase, << "f", "u", "n", "c", "t", "i", "o", "n", "a", "l", "R", "e", "q", "u", "i", "r", "e", "m", "e", "n", "t", "s" >>).items[k],
                        << << "d", "e", "s", "c", "r", "i", "p", "t", "i", "o", "n" >>,
                           << "b", "u", "s", "i", "n", "e", "s", "s", "L", "o", "g", "i", "c" >> >>)
    THEN Throw("TypeError", <<>>)
  ELSE uploadedSample(
         context.value
           \o << "\n", "B", "u", "s", "i", "n", "e", "s", "s", " ", "R", "u",
              "l", "e", "s", ":", "\n" >>
           \o pairLines(getProperty(knowledgeBase, << "b", "u", "s", "i", "n", "e", "s", "s", "R", "u", "l", "e", "s" >>).items, 1,
                        << "r", "u", "l", "e" >>,
                        << "s", "q", "l", "C", "o", "n", "d", "i", "t", "i", "o", "n" >>)
           \o << "\n", "F", "u", "n", "c", "t", "i", "o", "n", "a", "l", " ",
              "R", "e", "q", "u", "i", "r", "e", "m", "e", "n", "t", "s",
              ":", "\n" >>
           \o pairLines(getProperty(knowledgeBase, << "f", "u", "n", "c", "t", "i", "o", "n", "a", "l", "R", "e", "q", "u", "i", "r", "e", "m", "e", "n", "t", "s" >>).items, 1,
                        << "d", "e", "s", "c", "r", "i", "p", "t", "i", "o", "n" >>,
                        << "b", "u", "s", "i", "n", "e", "s", "s", "L", "o", "g", "i", "c" >>),
         uploadedData)

tablesOf(knowledgeBase) ==
  IF ~canEach(knowledgeBase, << "t", "a", "b", "l", "e", "S", "p", "e", "c", "i", "f", "i", "c", "a", "t", "i", "o", "n", "s" >>)
    THEN Throw("TypeError", <<>>)
  ELSE tableLines(getProperty(knowledgeBase, << "t", "a", "b", "l", "e", "S", "p", "e", "c", "i", "f", "i", "c", "a", "t", "i", "o", "n", "s" >>).items, 1,
         << "K", "n", "o", "w", "l", "e", "d", "g", "e", " ", "B", "a", "s",
            "e", ":", "\n", "\n", "T", "a", "b", "l", "e", " ", "S", "p",
            "e", "c", "i", "f", "i", "c", "a", "t", "i", "o", "n", "s", ":",
            "\n" >>)

buildContext(knowledgeBase, uploadedData) ==
  afterTables(tablesOf(knowledgeBase), knowledgeBase, uploadedData)

(***************************************************************************)
(* The request of each operation and the steps of a call.  call is         *)
(*   [op, phase, sent, received, extractorCalls, outcome]:                 *)
(* sent holds the requests handed to groq.chat.completions.create,         *)
(* received the completions it resolved with, extractorCalls counts the    *)
(* calls of the operation's extractor, and outcome is what the operation's *)
(* promise settled with.                                                   *)
(***************************************************************************)
chatRequest(system, user, temperature, max_tokens) ==
  [messages |-> << [role |-> "system", content |-> system],
                   [role |-> "user", content |-> user] >>,
   model |-> "mixtral-8x7b-32768",
   temperature |-> temperature,
   max_tokens |-> max_tokens]

\* lines 93-118, 137-161 and 174-199: the argument of create
requestOf(op, user) ==
  IF op = "parseExcelWorkbook"
    THEN chatRequest(ParseWorkbookPrompt, user, "0.1", 4000)
  ELSE IF op = "generateQueries"
    THEN chatRequest(GenerateQueriesPrompt, user, "0.2", 2000)
  ELSE chatRequest(GenerateTestScenariosPrompt, user, "0.3", 3000)

\* text is what the operation built before its request: the operation
\* issues the request, or its catch block throws when building text threw
begin(op, prefix, text, suffix) ==
  IF text.kind = "throw"
    THEN [op |-> op, phase |-> "settled", sent |-> <<>>, received |-> <<>>,
          extractorCalls |-> 0, outcome |-> Thrown(FailureMessage(op))]
    ELSE [op |-> op, phase |-> "awaiting",
          sent |-> << requestOf(op, prefix \o text.value \o suffix) >>,
          received |-> <<>>, extractorCalls |-> 0, outcome |-> IdleResult]

\* lines 90-118, up to the await
parseExcelWorkbookBegin(workbookData) ==
  begin("parseExcelWorkbook",
        << "A", "n", "a", "l", "y", "z", "e", " ", "t", "h", "i", "s", " ",
        "E", "x", "c", "e", "l", " ", "w", "o", "r", "k", "b", "o", "o",
        "k", ":", "\n", "\n" >>,
        convertWorkbookToText(workbookData), <<>>)

\* lines 134-161, up to the await
generateQueriesBegin(knowledgeBase, userRequest, uploadedData) ==
  begin("generateQueries",
        << "K", "n", "o", "w", "l", "e", "d", "g", "e", " ", "B", "a", "s",
        "e", ":", "\n" >>,
        buildContext(knowledgeBase, uploadedData),
        << "\n", "\n", "U", "s", "e", "r", " ", "R", "e", "q", "u", "e", "s",
        "t", ":", " " >>
          \o userRequest)

\* lines 173-199, up to the await
generateTestScenariosBegin(knowledgeBase) ==
  begin("generateTestScenarios",
        << "G", "e", "n", "e", "r", "a", "t", "e", " ", "t", "e", "s", "t",
        " ", "s", "c", "e", "n", "a", "r", "i", "o", "s", " ", "f", "o",
        "r", " ", "t", "h", "i", "s", " ", "k", "n", "o", "w", "l", "e",
        "d", "g", "e", " ", "b", "a", "s", "e", ":", "\n" >>,
        Return(JSONstringify(knowledgeBase)), <<>>)

\* a completion whose first choice holds content
Completion(content) == [choices |-> << [message |-> [content |-> content]] >>]

\* the extractor of operation op called on content, a string or null:
\* null.match is a TypeError inside the extractor's own try block; nows are
\* the readings of the clock parseQueryResponse takes
extract(op, content, nows) ==
  IF op = "parseExcelWorkbook"
    THEN IF content.t = "null" THEN Thrown(InvalidResponseFormat)
         ELSE parseGroqResponse(content.s)
  ELSE IF op = "generateQueries"
    THEN IF content.t = "null" THEN Thrown(InvalidQueryResponseFormat)
         ELSE parseQueryResponse(content.s, nows)
  ELSE IF content.t = "null" THEN Thrown(InvalidTestScenarioResponseFormat)
       ELSE parseTestScenarioResponse(content.s)

\* variant: no outer catch block, the Error of the extractor reaches the
\* caller
resume_ExtractorError(c, response, nows) ==
  IF response.choices = <<>>
    THEN [c EXCEPT !.phase = "settled",
                   !.received = << response >>,
                   !.outcome = Thrown(FailureMessage(c.op))]
    ELSE [c EXCEPT !.phase = "settled",
                   !.received = << response >>,
                   !.extractorCalls = c.extractorCalls + 1,
                   !.outcome = extract(c.op,
                                       response.choices[1].message.content,
                                       nows)]

\* lines 120-126, 163-169 and 201-207: the call resumes with the completion;
\* response.choices[0].message of an empty choices is a TypeError
resume(c, response, nows) ==
  IF response.choices = <<>>
    THEN [c EXCEPT !.phase = "settled",
                   !.received = << response >>,
                   !.outcome = Thrown(FailureMessage(c.op))]
    ELSE [c EXCEPT !.phase = "settled",
                   !.received = << response >>,
                   !.extractorCalls = c.extractorCalls + 1,
                   !.outcome = catch(extract(c.op,
                                       response.choices[1].message.content,
                                       nows),
                                     FailureMessage(c.op))]

\* the request is rejected: the catch block throws the fixed Error
reject(c) ==
  [c EXCEPT !.phase = "settled", !.outcome = Thrown(FailureMessage(c.op))]

(***************************************************************************)
(* Service specification: one operation of GroqService is called on a      *)
(* workbook of at most MaxSheets sheets or on a knowledge base; its        *)
(* request resolves with a completion or is rejected.                      *)
(***************************************************************************)
\* a sheet over A1:B1, a sheet of the one cell A1, and a sheet without cells
SheetInputs ==
  { [ref |-> r,
     cells |-> [a \in GridAddresses |->
                  IF a = Address(1, 1) /\ r # <<>>
                    THEN StringCell(<< "x" >>) ELSE AbsentCell]] :
      r \in { RangeRef(1, 1, 2, 1), Address(1, 1), <<>> } }

SheetName(k) == << "S", "h", "e", "e", "t" >> \o numberToString(k)

Workbooks ==
  { [SheetNames |-> [k \in 1..Len(sheets) |-> SheetName(k)],
     Sheets |-> sheets] : sheets \in SeqsUpTo(SheetInputs, MaxSheets) }

\* a knowledge base with a table, a rule and no requirement
KnowledgeText ==
  << "{", "\"", "t", "a", "b", "l", "e", "S", "p", "e", "c", "i", "f", "i",
    "c", "a", "t", "i", "o", "n", "s", "\"", ":", "[", "{", "\"", "t", "a",
    "b", "l", "e", "N", "a", "m", "e", "\"", ":", "\"", "t", "\"", ",",
    "\"", "c", "o", "l", "u", "m", "n", "s", "\"", ":", "[", "{", "\"", "n",
    "a", "m", "e", "\"", ":", "\"", "c", "\"", ",", "\"", "d", "a", "t",
    "a", "T", "y", "p", "e", "\"", ":", "\"", "i", "n", "t", "\"", ",",
    "\"", "i", "s", "P", "r", "i", "m", "a", "r", "y", "K", "e", "y", "\"",
    ":", "t", "r", "u", "e", "}", "]", "}", "]", ",", "\"", "b", "u", "s",
    "i", "n", "e", "s", "s", "R", "u", "l", "e", "s", "\"", ":", "[", "{",
    "\"", "r", "u", "l", "e", "\"", ":", "\"", "r", "\"", ",", "\"", "s",
    "q", "l", "C", "o", "n", "d", "i", "t", "i", "o", "n", "\"", ":", "\"",
    "c", "\"", "}", "]", ",", "\"", "f", "u", "n", "c", "t", "i", "o", "n",
    "a", "l", "R", "e", "q", "u", "i", "r", "e", "m", "e", "n", "t", "s",
    "\"", ":", "[", "]", ",", "\"", "t", "e", "s", "t", "S", "c", "e", "n",
    "a", "r", "i", "o", "s", "\"", ":", "[", "]", "}" >>

\* a knowledge base whose four lists are empty
EmptyKnowledgeText ==
  << "{", "\"", "t", "a", "b", "l", "e", "S", "p", "e", "c", "i", "f", "i",
    "c", "a", "t", "i", "o", "n", "s", "\"", ":", "[", "]", ",", "\"", "b",
    "u", "s", "i", "n", "e", "s", "s", "R", "u", "l", "e", "s", "\"", ":",
    "[", "]", ",", "\"", "f", "u", "n", "c", "t", "i", "o", "n", "a", "l",
    "R", "e", "q", "u", "i", "r", "e", "m", "e", "n", "t", "s", "\"", ":",
    "[", "]", ",", "\"", "t", "e", "s", "t", "S", "c", "e", "n", "a", "r",
    "i", "o", "s", "\"", ":", "[", "]", "}" >>

\* what parseGroqResponse may have returned: a knowledge base, or JSON of
\* another shape
Knowledges ==
  { JSONparse(text).val : text \in { KnowledgeText, EmptyKnowledgeText, ObjectText } }

UploadedDataInputs ==
  { Undefined, Val("array", <<>>, <<>>, <<>>), Val("number", << "1" >>, <<>>, <<>>) }

UserRequests == { << "q" >>, << "a", "l", "l" >> }

ResponseContents ==
  { Val("string", text, <<>>, <<>>) :
      text \in { EmptyKnowledgeText, ArrayText,
                 JsonFence \o ObjectText \o Fence, << "x" >> } }
    \cup { Val("null", <<>>, <<>>, <<>>) }

Responses ==
  { Completion(content) : content \in ResponseContents }
    \cup { [choices |-> <<>>] }

InitSvc ==
  /\ HelperIdle
  /\ AppIdle
  /\ pc = "service"

\* parseExcelWorkbook(workbookData) is called and runs up to its await
ParseExcelWorkbook ==
  /\ pc = "service"
  /\ call.phase = "idle"
  /\ \E workbookData \in Workbooks :
       call' = parseExcelWorkbookBegin(workbookData)
  /\ UNCHANGED <<helperVars, sqlResponse, messages, inputValue, isTyping,
                 sqlQueries, files, isUploading, isDragOver, clock, ticks, timers,
                 parserVars>>

\* generateQueries(knowledge, userRequest, uploadedData) is called and runs
\* up to its await
GenerateQueries ==
  /\ pc = "service"
  /\ call.phase = "idle"
  /\ \E knowledgeBase \in Knowledges, userRequest \in UserRequests,
        uploadedData \in UploadedDataInputs :
       call' = generateQueriesBegin(knowledgeBase, userRequest, uploadedData)
  /\ UNCHANGED <<helperVars, sqlResponse, messages, inputValue, isTyping,
                 sqlQueries, files, isUploading, isDragOver, clock, ticks, timers,
                 parserVars>>

\* generateTestScenarios(knowledge) is called and runs up to its await
GenerateTestScenarios ==
  /\ pc = "service"
  /\ call.phase = "idle"
  /\ \E knowledgeBase \in Knowledges :
       call' = generateTestScenariosBegin(knowledgeBase)
  /\ UNCHANGED <<helperVars, sqlResponse, messages, inputValue, isTyping,
                 sqlQueries, files, isUploading, isDragOver, clock, ticks, timers,
                 parserVars>>

\* the awaited request resolves and the operation runs to its end
ResolveRequest ==
  /\ pc = "service"
  /\ call.phase = "awaiting"
  /\ \E response \in Responses, nows \in ClockReadings :
       call' = resume(call, response, nows)
  /\ UNCHANGED <<helperVars, sqlResponse, messages, inputValue, isTyping,
                 sqlQueries, files, isUploading, isDragOver, clock, ticks, timers,
                 parserVars>>

\* the awaited request is rejected and the operation runs to its end
RejectRequest ==
  /\ pc = "service"
  /\ call.phase = "awaiting"
  /\ call' = reject(call)
  /\ UNCHANGED <<helperVars, sqlResponse, messages, inputValue, isTyping,
                 sqlQueries, files, isUploading, isDragOver, clock, ticks, timers,
                 parserVars>>

NextSvc ==
  \/ ParseExcelWorkbook
  \/ GenerateQueries
  \/ GenerateTestScenarios
  \/ ResolveRequest
  \/ RejectRequest

SpecSvc == InitSvc /\ [][NextSvc]_vars

\* C13: each operation issues exactly one request, calls its extractor at
\* most once and only after that request has completed, and never issues
\* a second request.
ServiceIssuesExactlyOneRequest ==
  pc = "service" =>
    /\ Len(call.sent) <= 1
    /\ call.extractorCalls <= 1
    /\ (call.extractorCalls = 1 => Len(call.received) = 1)
    /\ (call.phase = "settled" => Len(call.sent) = 1)

\* C27: whatever fails inside an operation of the service, the caller gets
\* the fixed Error of that operation ('Failed to parse Excel workbook' for
\* parseExcelWorkbook) and nothing else: a malformed response and a failed
\* request give the same outcome, which holds nothing of the response.
ServiceFailuresAreFixed ==
  (pc = "service" /\ call.phase = "settled" /\ call.outcome.kind = "throw")
    => call.outcome = Thrown(FailureMessage(call.op))

\* parseExcelWorkbook failed on a response its extractor could not parse
ServiceFailuresAreFixedWitness ==
  /\ pc = "service"
  /\ call.op = "parseExcelWorkbook"
  /\ call.phase = "settled"
  /\ call.extractorCalls = 1
  /\ call.received = << Completion(Val("string", << "x" >>, <<>>, <<>>)) >>
  /\ call.outcome = Thrown(FailedToParseExcelWorkbook)

(***************************************************************************)
(* Time and setTimeout.  clock counts the milliseconds since the page was  *)
(* loaded and Date.now() reads StartTime + clock.  timers holds the        *)
(* callbacks scheduled and not yet run, in the order setTimeout was        *)
(* called: callback names the arrow function, arg is what its closure      *)
(* captured, mounted tells whether the component that scheduled it is      *)
(* still mounted.  The callback that runs is the one with the earliest    *)
(* due time, the older one first among equals.  A callback runs at its    *)
(* due time or later, and the clock may advance between two readings a    *)
(* handler takes of it.  Time passes in two ways: by one millisecond, in   *)
(* any state, also while a callback that is due waits and while a handler  *)
(* runs; and in one step up to the next due time while no callback is due. *)
(* ticks counts the single milliseconds followed, which the model caps at  *)
(* MaxTick in one behaviour: so late in all may the callbacks run.         *)
(***************************************************************************)
\* the delay of the reply of the bot (part_003 line 106)
ChatDelay == 1500

\* the delay of the simulated upload (FileUpload.tsx lines 37 and 48)
UploadDelay == 1500

\* the delay of the simulated analysis (App.tsx line 49)
AnalysisDelay == 3000

\* what Date.now() read when the page was loaded: above the id '1' of the
\* greeting, as every time of this century is
StartTime == 1000000

\* the number of single milliseconds followed in one behaviour, between
\* events and within handlers; all other time passes in one step up to the
\* next due time
MaxTick == 2

\* the values the clock may read while a handler that started at now runs:
\* the clock may advance by any number of the milliseconds still followed
driftOf(now) == now..(now + (MaxTick - ticks))

\* Date.now()
DateNow(now) == StartTime + now

\* setTimeout(callback, delay), the closure of callback holding arg
setTimeout(queue, callback, delay, arg, now) ==
  Append(queue, [callback |-> callback, due |-> now + delay, arg |-> arg,
                 mounted |-> TRUE])

\* the k-th scheduled callback is the one the event loop runs now
isNext(queue, k, now) ==
  /\ k \in 1..Len(queue)
  /\ queue[k].due <= now
  /\ \A j \in 1..Len(queue) :
       \/ j = k
       \/ queue[j].due > queue[k].due
       \/ (queue[j].due = queue[k].due /\ j > k)

\* the queue once its k-th callback has run
without(queue, k) ==
  [i \in 1..(Len(queue) - 1) |-> IF i < k THEN queue[i] ELSE queue[i + 1]]

\* no scheduled callback is due
noneDue(queue, now) == \A k \in 1..Len(queue) : queue[k].due > now

\* one millisecond passes, also while a callback that is due waits
Tick ==
  /\ pc \in {"chat", "files"}
  /\ ticks < MaxTick
  /\ clock' = clock + 1
  /\ ticks' = ticks + 1
  /\ UNCHANGED <<helperVars, call, sqlResponse, messages, inputValue,
                 isTyping, sqlQueries, files, isUploading, isDragOver,
                 timers,
                 parserVars>>

\* time passes up to the next due time
Elapse ==
  /\ pc \in {"chat", "files"}
  /\ timers # <<>>
  /\ noneDue(timers, clock)
  /\ \E k \in 1..Len(timers) :
       /\ \A j \in 1..Len(timers) : timers[j].due >= timers[k].due
       /\ clock' = timers[k].due
  /\ UNCHANGED <<helperVars, call, sqlResponse, messages, inputValue,
                 isTyping, sqlQueries, files, isUploading, isDragOver,
                 ticks, timers,
                 parserVars>>

(***************************************************************************)
(* ChatInterface (part_003) and App.handleSQLGenerated (App.tsx 56-64).    *)
(* A message is [id, type, content, timestamp, sqlQuery]; the content is   *)
(* a sequence of pieces of text, the characters typed for a user message   *)
(* and the two parts of the template string for a bot message; sqlQuery    *)
(* is "" where the source leaves it undefined (no scenario has an empty    *)
(* query).  An id is the string of digits the source builds.               *)
(***************************************************************************)
\* the number of messages sent that the model follows
MaxSends == 2

\* the sqlQuery of a message that has none
NoSqlQuery == ""

Greeting ==
  "Hi! I'm ready to help you analyze your Excel data and generate SQL queries. Try asking me about your data or request specific test scenarios!"

BasedOnYourRequest ==
  "Based on your request, I've generated a SQL query for you. "

\* useState<Message[]>([...]), lines 17-24
initialMessages ==
  << [id |-> << "1" >>, type |-> "bot", content |-> << Greeting >>,
      timestamp |-> 0, sqlQuery |-> NoSqlQuery] >>
\* lines 116-122
suggestedQueries ==
  << << "S", "h", "o", "w", " ", "m", "e", " ", "a", "l", "l", " ", "t",
        "h", "e", " ", "d", "a", "t", "a" >>,
     << "C", "o", "u", "n", "t", " ", "t", "o", "t", "a", "l", " ", "r",
        "e", "c", "o", "r", "d", "s" >>,
     << "F", "i", "n", "d", " ", "d", "u", "p", "l", "i", "c", "a", "t",
        "e", "s" >>,
     << "G", "r", "o", "u", "p", " ", "b", "y", " ", "c", "a", "t", "e",
        "g", "o", "r", "y" >>,
     << "C", "a", "l", "c", "u", "l", "a", "t", "e", " ", "a", "v", "e",
        "r", "a", "g", "e", "s" >> >>

\* String.prototype.trim leaves nothing: !str.trim()
trimIsEmpty(str) == \A i \in 1..Len(str) : str[i] \in RegexWhiteSpace

\* lines 79-84: Date.now() of line 80 reads idNow, new Date() of line 83
\* reads stampNow
newUserMessage(text, idNow, stampNow) ==
  [id |-> numberToString(DateNow(idNow)), type |-> "user", content |-> text,
   timestamp |-> stampNow, sqlQuery |-> NoSqlQuery]

\* lines 93-99: Date.now() of line 94 reads idNow, new Date() of line 97
\* reads stampNow
botMessage(response, idNow, stampNow) ==
  [id |-> numberToString(DateNow(idNow) + 1), type |-> "bot",
   content |-> << BasedOnYourRequest, response.description >>,
   timestamp |-> stampNow, sqlQuery |-> response.query]

\* App.handleSQLGenerated: the query appended to sqlQueries; Date.now() of
\* line 58 reads idNow, new Date() of line 61 reads stampNow
newQuery(query, description, idNow, stampNow) ==
  [id |-> numberToString(DateNow(idNow)), query |-> query,
   description |-> description, timestamp |-> stampNow]

handleSQLGenerated(queries, query, description, idNow, stampNow) ==
  Append(queries, newQuery(query, description, idNow, stampNow))

\* the messages of the user in a list of messages
userMessages(list) == SelectSeq(list, LAMBDA m : m.type = "user")

\* the texts typed into the input box
ChatInputs ==
  { << " ", "\n" >>, << "N", "u", "m", "b", "e", "r", "?" >> }

\* generateSQLResponse of every text a message of the chat may carry,
\* computed once
sqlResponses ==
  [text \in ChatInputs \cup { suggestedQueries[k] :
                               k \in 1..Len(suggestedQueries) } |->
     generateSQLResponse(text)]

\* ChatInterface is mounted: the chat model starts
InitChat ==
  /\ HelperIdle
  /\ pc = "chat"
  /\ call = IdleCall
  /\ sqlResponse = NoResponse
  /\ messages = initialMessages
  /\ inputValue = << >>
  /\ isTyping = FALSE
  /\ sqlQueries = << >>
  /\ files = << >>
  /\ isUploading = FALSE
  /\ isDragOver = FALSE
  /\ clock = 0
  /\ ticks = 0
  /\ timers = << >>
  /\ ParserIdle

\* onChange of the textarea (line 202): setInputValue(e.target.value)
ChangeInput ==
  /\ pc = "chat"
  /\ \E text \in ChatInputs : inputValue' = text
  /\ UNCHANGED <<helperVars, call, sqlResponse, messages, isTyping,
                 sqlQueries, files, isUploading, isDragOver, clock, ticks, timers,
                 parserVars>>

\* onClick of a suggested query (lines 176-191), shown while
\* messages.length <= 1
ClickSuggestion ==
  /\ pc = "chat"
  /\ Len(messages) <= 1
  /\ \E k \in 1..Len(suggestedQueries) : inputValue' = suggestedQueries[k]
  /\ UNCHANGED <<helperVars, call, sqlResponse, messages, isTyping,
                 sqlQueries, files, isUploading, isDragOver, clock, ticks, timers,
                 parserVars>>

\* handleSendMessage without the test of line 77
handleSendMessage_SendsBlank ==
  /\ Len(userMessages(messages)) < MaxSends
  /\ \E idNow \in driftOf(clock), stampNow \in driftOf(clock) :
       /\ idNow <= stampNow
       /\ messages' = Append(messages,
                             newUserMessage(inputValue, idNow, stampNow))
       /\ timers' = setTimeout(timers, "reply", ChatDelay, inputValue,
                               stampNow)
       /\ clock' = stampNow
       /\ ticks' = ticks + (stampNow - clock)
  /\ inputValue' = << >>
  /\ isTyping' = TRUE

\* handleSendMessage (lines 76-107) up to the call of setTimeout, which
\* follows the reading of line 83
handleSendMessage ==
  IF trimIsEmpty(inputValue)
  THEN UNCHANGED <<messages, inputValue, isTyping, timers, clock, ticks>>
  ELSE /\ Len(userMessages(messages)) < MaxSends
       /\ \E idNow \in driftOf(clock), stampNow \in driftOf(clock) :
            /\ idNow <= stampNow
            /\ messages' = Append(messages,
                                  newUserMessage(inputValue, idNow, stampNow))
            /\ timers' = setTimeout(timers, "reply", ChatDelay, inputValue,
                                    stampNow)
            /\ clock' = stampNow
            /\ ticks' = ticks + (stampNow - clock)
       /\ inputValue' = << >>
       /\ isTyping' = TRUE

\* onClick of the send button (lines 210-216), which is disabled while
\* the input is blank or the bot is typing
ClickSend ==
  /\ pc = "chat"
  /\ ~(trimIsEmpty(inputValue) \/ isTyping)
  /\ handleSendMessage
  /\ UNCHANGED <<helperVars, call, sqlResponse, sqlQueries, files,
                 isUploading, isDragOver,
                 parserVars>>

\* handleKeyPress (lines 109-114) for Enter without Shift
PressEnter ==
  /\ pc = "chat"
  /\ handleSendMessage
  /\ UNCHANGED <<helperVars, call, sqlResponse, sqlQueries, files,
                 isUploading, isDragOver,
                 parserVars>>

\* the readings of the clock the callback of the reply takes, in the order
\* it takes them: part_003 lines 94 and 97, App.tsx lines 58 and 61
replyReadings(now) ==
  { nows \in [1..4 -> driftOf(now)] :
      \A j \in 1..3 : nows[j] <= nows[j + 1] }

\* the callback of handleSendMessage's setTimeout (lines 91-106), with
\* App.handleSQLGenerated for onSQLGenerated
Reply ==
  /\ pc = "chat"
  /\ \E k \in 1..Len(timers) :
       /\ isNext(timers, k, clock)
       /\ timers[k].callback = "reply"
       /\ sqlResponse' = sqlResponses[timers[k].arg]
       /\ timers' = without(timers, k)
  /\ \E nows \in replyReadings(clock) :
       /\ messages' = Append(messages,
                             botMessage(sqlResponse', nows[1], nows[2]))
       /\ sqlQueries' = handleSQLGenerated(sqlQueries, sqlResponse'.query,
                                           sqlResponse'.description,
                                           nows[3], nows[4])
       /\ clock' = nows[4]
       /\ ticks' = ticks + (nows[4] - clock)
  /\ isTyping' = FALSE
  /\ UNCHANGED <<helperVars, call, inputValue, files, isUploading,
                 isDragOver,
                 parserVars>>

NextChat ==
  \/ ChangeInput
  \/ ClickSuggestion
  \/ ClickSend
  \/ PressEnter
  \/ Reply
  \/ Tick
  \/ Elapse

SpecChat == InitChat /\ [][NextChat]_vars

\* a scheduled callback runs when it is due, and time passes
SpecChatFair ==
  /\ SpecChat
  /\ WF_vars(Reply)
  /\ WF_vars(Elapse)

\* the bot messages that carry a query
replies(list) ==
  SelectSeq(list, LAMBDA m : m.type = "bot" /\ m.sqlQuery # NoSqlQuery)

\* the replies scheduled and not yet given
pendingReplies(queue) == SelectSeq(queue, LAMBDA t : t.callback = "reply")

\* every message sent has its reply given or scheduled; the k-th reply
\* is given 1.5 s or more after the k-th message was sent and carries the query
\* generated for it, which is the k-th query of App
ChatFlowCountsOf(sent, given, pending) ==
  /\ Len(given) + Len(pending) = Len(sent)
  /\ Len(sqlQueries) = Len(given)
  /\ \A k \in 1..Len(given) :
       /\ given[k].timestamp >= sent[k].timestamp + ChatDelay
       /\ given[k].sqlQuery = sqlResponses[sent[k].content].query
       /\ sqlQueries[k].query = given[k].sqlQuery

ChatFlowCounts ==
  pc = "chat" =>
    ChatFlowCountsOf(userMessages(messages), replies(messages),
                     pendingReplies(timers))

\* a step leaves the chat as it is, or sends a non-blank input, or gives
\* one reply
ChatFlowStep ==
  \/ UNCHANGED <<messages, isTyping, sqlQueries, timers>>
  \/ /\ ~trimIsEmpty(inputValue)
     /\ Len(messages') = Len(messages) + 1
     /\ SubSeq(messages', 1, Len(messages)) = messages
     /\ messages'[Len(messages')].type = "user"
     /\ messages'[Len(messages')].content = inputValue
     /\ isTyping'
     /\ Len(pendingReplies(timers')) = Len(pendingReplies(timers)) + 1
     /\ sqlQueries' = sqlQueries
  \/ /\ Len(messages') = Len(messages) + 1
     /\ SubSeq(messages', 1, Len(messages)) = messages
     /\ messages'[Len(messages')].type = "bot"
     /\ messages'[Len(messages')].sqlQuery # NoSqlQuery
     /\ ~isTyping'
     /\ Len(pendingReplies(timers')) = Len(pendingReplies(timers)) - 1
     /\ Len(sqlQueries') = Len(sqlQueries) + 1
     /\ SubSeq(sqlQueries', 1, Len(sqlQueries)) = sqlQueries
     /\ sqlQueries'[Len(sqlQueries')].query
          = messages'[Len(messages')].sqlQuery

\* the messages sent that wait for their reply are all replied to
ChatFlowReplies ==
  (Len(replies(messages)) < Len(userMessages(messages)))
    ~> (Len(replies(messages)) = Len(userMessages(messages)))

\* C16: a non-blank input sent appends the user message and turns the
\* typing indicator on; when its 1.5 s timer fires one bot message with the
\* generated query is appended, the indicator is turned off and App appends
\* one query; a blank input changes nothing.
ChatFlow ==
  /\ []ChatFlowCounts
  /\ [][ChatFlowStep]_vars
  /\ ChatFlowReplies

\* two messages were sent, the second while the bot was typing, and both
\* were replied to
ChatFlowWitness ==
  /\ pc = "chat"
  /\ Len(userMessages(messages)) = 2
  /\ userMessages(messages)[2].timestamp < ChatDelay
  /\ Len(replies(messages)) = 2
  /\ Len(sqlQueries) = 2
  /\ sqlQueries[1].query # sqlQueries[2].query
  /\ ~isTyping

\* C22: no two entries of sqlQueries have the same id, and no two messages
\* of the chat history have the same id.
IdsAreUnique ==
  pc = "chat" =>
    /\ \A i \in 1..Len(messages), j \in 1..Len(messages) :
         i # j => messages[i].id # messages[j].id
    /\ \A i \in 1..Len(sqlQueries), j \in 1..Len(sqlQueries) :
         i # j => sqlQueries[i].id # sqlQueries[j].id

\* C23: at most one reply is pending at any time, and isTyping is true
\* exactly while a reply is pending: a send while the bot is typing is
\* ignored.
NoSendWhileTyping ==
  pc = "chat" =>
    /\ Len(pendingReplies(timers)) <= 1
    /\ isTyping <=> Len(pendingReplies(timers)) = 1

(***************************************************************************)
(* FileUpload (FileUpload.tsx) and App.handleFileUpload, handleFileRemove  *)
(* (App.tsx 32-54).  A File is [name, size]; an entry of files is          *)
(* [name, size, uploadedAt, status].  App renders FileUpload alone while   *)
(* files is empty and inside a div with FileManager otherwise (App.tsx     *)
(* 139-146), so the component is unmounted and a new one mounted, with     *)
(* isDragOver and isUploading false, each time files becomes empty or      *)
(* stops being empty; the callbacks the old one scheduled still run and    *)
(* call onFileUpload, and their setIsUploading(false) has no effect.       *)
(***************************************************************************)
\* uploads are started during the first MaxRounds upload delays
MaxRounds == 2

\* an upload is started while the entries of files and the scheduled
\* callbacks are fewer than MaxFiles
MaxFiles == 3

\* the number of files of one drop
MaxDropped == 2

\* String.prototype.endsWith
endsWith(str, searchString) ==
  /\ Len(searchString) <= Len(str)
  /\ \A i \in 1..Len(searchString) :
       str[Len(str) - Len(searchString) + i] = searchString[i]

\* the test of handleDrop's find (line 28)
isExcelFile(file) ==
  \/ endsWith(file.name, << ".", "x", "l", "s", "x" >>)
  \/ endsWith(file.name, << ".", "x", "l", "s" >>)
  \/ endsWith(file.name, << ".", "c", "s", "v" >>)

\* files.find(...) of lines 27-29 from index k on; found = FALSE stands
\* for undefined
RECURSIVE findExcelFile(_, _)
findExcelFile(list, k) ==
  IF k > Len(list) THEN [found |-> FALSE, file |-> [name |-> << >>, size |-> 0]]
  ELSE IF isExcelFile(list[k]) THEN [found |-> TRUE, file |-> list[k]]
  ELSE findExcelFile(list, k + 1)

\* newFile of handleFileUpload (lines 33-38)
newFile(file, now) ==
  [name |-> file.name, size |-> file.size, uploadedAt |-> now,
   status |-> "analyzing"]

\* variant: the callback flips the status of the entries of that name
markReady_Toggles(list, name) ==
  [i \in 1..Len(list) |->
     IF list[i].name = name
       THEN [list[i] EXCEPT !.status = IF @ = "ready" THEN "analyzing"
                                       ELSE "ready"]
     ELSE list[i]]

\* prev.map(f => f.name === file.name ? { ...f, status: 'ready' } : f)
markReady(list, name) ==
  [i \in 1..Len(list) |->
     IF list[i].name = name THEN [list[i] EXCEPT !.status = "ready"]
     ELSE list[i]]

\* variant: only the first entry of that name is removed
handleFileRemove_FirstOnly(list, fileName) ==
  LET first == CHOOSE k \in 1..Len(list) :
                 /\ list[k].name = fileName
                 /\ \A j \in 1..(k - 1) : list[j].name # fileName
  IN  IF \E k \in 1..Len(list) : list[k].name = fileName
        THEN [i \in 1..(Len(list) - 1) |->
                IF i < first THEN list[i] ELSE list[i + 1]]
        ELSE list

\* prev.filter(f => f.name !== fileName)
handleFileRemove(list, fileName) ==
  SelectSeq(list, LAMBDA f : f.name # fileName)

\* FileUpload is unmounted and mounted anew between two lists of files
remounts(before, after) == (Len(before) = 0) # (Len(after) = 0)

\* the scheduled callbacks once the component that is mounted is unmounted
unmounted(queue) ==
  [i \in 1..Len(queue) |-> [queue[i] EXCEPT !.mounted = FALSE]]

\* the scheduled callbacks after files changed from before to after
afterRender(queue, before, after) ==
  IF remounts(before, after) THEN unmounted(queue) ELSE queue

\* the files the user has
FileInputs ==
  { [name |-> << "a", ".", "x", "l", "s", "x" >>, size |-> 1],
    [name |-> << "b", ".", "c", "s", "v" >>, size |-> 2],
    [name |-> << "n", ".", "t", "x", "t" >>, size |-> 3] }

\* e.dataTransfer.files of a drop
FileLists(n) == UNION { [1..m -> FileInputs] : m \in 0..n }

\* App and FileUpload are mounted: the file model starts
InitFiles ==
  /\ HelperIdle
  /\ pc = "files"
  /\ call = IdleCall
  /\ sqlResponse = NoResponse
  /\ messages = << >>
  /\ inputValue = << >>
  /\ isTyping = FALSE
  /\ sqlQueries = << >>
  /\ files = << >>
  /\ isUploading = FALSE
  /\ isDragOver = FALSE
  /\ clock = 0
  /\ ticks = 0
  /\ timers = << >>
  /\ ParserIdle

\* the model follows one more upload
mayUpload ==
  /\ clock < MaxRounds * UploadDelay
  /\ Len(files) + Len(timers) < MaxFiles

\* handleDragOver (lines 12-15); the drop zone takes no pointer event
\* while isUploading (line 61)
DragOver ==
  /\ pc = "files"
  /\ ~isUploading
  /\ isDragOver' = TRUE
  /\ UNCHANGED <<helperVars, call, sqlResponse, messages, inputValue,
                 isTyping, sqlQueries, files, isUploading, clock, ticks, timers,
                 parserVars>>

\* handleDragLeave (lines 17-20)
DragLeave ==
  /\ pc = "files"
  /\ ~isUploading
  /\ isDragOver' = FALSE
  /\ UNCHANGED <<helperVars, call, sqlResponse, messages, inputValue,
                 isTyping, sqlQueries, files, isUploading, clock, ticks, timers,
                 parserVars>>

\* lines 31-38 and 43-49: if (file) { setIsUploading(true); setTimeout(...) }
startUpload(found, file) ==
  IF found
  THEN /\ isUploading' = TRUE
       /\ timers' = setTimeout(timers, "upload", UploadDelay, file, clock)
  ELSE UNCHANGED <<isUploading, timers>>

\* handleDrop (lines 22-39)
Drop ==
  /\ pc = "files"
  /\ ~isUploading
  /\ mayUpload
  /\ isDragOver' = FALSE
  /\ \E list \in FileLists(MaxDropped) :
       startUpload(findExcelFile(list, 1).found, findExcelFile(list, 1).file)
  /\ UNCHANGED <<helperVars, call, sqlResponse, messages, inputValue,
                 isTyping, sqlQueries, files, clock, ticks,
                 parserVars>>

\* handleFileSelect (lines 41-50) on e.target.files, of the input that is
\* disabled while isUploading (line 72)
SelectFile ==
  /\ pc = "files"
  /\ ~isUploading
  /\ mayUpload
  /\ \E list \in FileLists(1) :
       startUpload(Len(list) > 0,
                   IF Len(list) > 0 THEN list[1]
                   ELSE [name |-> << >>, size |-> 0])
  /\ UNCHANGED <<helperVars, call, sqlResponse, messages, inputValue,
                 isTyping, sqlQueries, files, isDragOver, clock, ticks,
                 parserVars>>

\* the callback of lines 34-37 and 45-48 without handleFileUpload's
\* setTimeout
Uploaded_NoAnalysis ==
  /\ pc = "files"
  /\ \E k \in 1..Len(timers) :
       /\ isNext(timers, k, clock)
       /\ timers[k].callback = "upload"
       /\ files' = Append(files, newFile(timers[k].arg, clock))
       /\ timers' = afterRender(without(timers, k), files, files')
       /\ isUploading' =
            IF remounts(files, files') \/ timers[k].mounted THEN FALSE
            ELSE isUploading
  /\ isDragOver' = IF remounts(files, files') THEN FALSE ELSE isDragOver
  /\ UNCHANGED <<helperVars, call, sqlResponse, messages, inputValue,
                 isTyping, sqlQueries, clock, ticks,
                 parserVars>>

\* the callback of lines 34-37 and 45-48: onFileUpload(file), which is
\* App.handleFileUpload (lines 32-50), then setIsUploading(false)
Uploaded ==
  /\ pc = "files"
  /\ \E k \in 1..Len(timers) :
       /\ isNext(timers, k, clock)
       /\ timers[k].callback = "upload"
       /\ files' = Append(files, newFile(timers[k].arg, clock))
       /\ timers' = setTimeout(afterRender(without(timers, k), files, files'),
                               "ready", AnalysisDelay, timers[k].arg.name,
                               clock)
       /\ isUploading' =
            IF remounts(files, files') \/ timers[k].mounted THEN FALSE
            ELSE isUploading
  /\ isDragOver' = IF remounts(files, files') THEN FALSE ELSE isDragOver
  /\ UNCHANGED <<helperVars, call, sqlResponse, messages, inputValue,
                 isTyping, sqlQueries, clock, ticks,
                 parserVars>>

\* the callback of handleFileUpload's setTimeout (App.tsx lines 43-49)
Analyzed ==
  /\ pc = "files"
  /\ \E k \in 1..Len(timers) :
       /\ isNext(timers, k, clock)
       /\ timers[k].callback = "ready"
       /\ files' = markReady(files, timers[k].arg)
       /\ timers' = without(timers, k)
  /\ UNCHANGED <<helperVars, call, sqlResponse, messages, inputValue,
                 isTyping, sqlQueries, isUploading, isDragOver, clock, ticks,
                 parserVars>>

\* onClick of the remove button of an entry (FileManager.tsx line 88):
\* App.handleFileRemove(file.name)
RemoveFile ==
  /\ pc = "files"
  /\ \E k \in 1..Len(files) :
       files' = handleFileRemove(files, files[k].name)
  /\ timers' = afterRender(timers, files, files')
  /\ isUploading' = IF remounts(files, files') THEN FALSE ELSE isUploading
  /\ isDragOver' = IF remounts(files, files') THEN FALSE ELSE isDragOver
  /\ UNCHANGED <<helperVars, call, sqlResponse, messages, inputValue,
                 isTyping, sqlQueries, clock, ticks,
                 parserVars>>

NextFiles ==
  \/ DragOver
  \/ DragLeave
  \/ Drop
  \/ SelectFile
  \/ Uploaded
  \/ Analyzed
  \/ RemoveFile
  \/ Tick
  \/ Elapse

SpecFiles == InitFiles /\ [][NextFiles]_vars

\* a scheduled callback runs when it is due, and time passes
SpecFilesFair ==
  /\ SpecFiles
  /\ WF_vars(Uploaded)
  /\ WF_vars(Analyzed)
  /\ WF_vars(Elapse)

\* the scheduled callbacks of FileUpload
pendingUploads(queue) == SelectSeq(queue, LAMBDA t : t.callback = "upload")

\* a step that calls handleFileUpload, and no other, adds an entry: the
\* file passed, at the end of the list, with status 'analyzing'
FileFlowStep ==
  /\ Len(files') <= Len(files) + 1
  /\ Len(pendingUploads(timers')) < Len(pendingUploads(timers))
       <=> Len(files') = Len(files) + 1
  /\ Len(files') = Len(files) + 1 =>
       /\ SubSeq(files', 1, Len(files)) = files
       /\ files'[Len(files')].status = "analyzing"
       /\ \E k \in 1..Len(timers) :
            /\ isNext(timers, k, clock)
            /\ timers[k].callback = "upload"
            /\ files'[Len(files')].name = timers[k].arg.name
            /\ files'[Len(files')].size = timers[k].arg.size

\* an entry added at time t that is being analyzed has a timer pending
\* that is due at t + 3 s and makes the entries of its name 'ready'; the
\* entry is 'ready' once the clock is past the time up to which that timer
\* may wait, while it is in the list
FileFlowReadyInTime ==
  pc = "files" =>
    \A k \in 1..Len(files) :
      /\ files[k].status = "analyzing" =>
           \E j \in 1..Len(timers) :
             /\ timers[j].callback = "ready"
             /\ timers[j].arg = files[k].name
             /\ timers[j].due = files[k].uploadedAt + AnalysisDelay
      /\ files[k].uploadedAt + AnalysisDelay + MaxTick < clock =>
           files[k].status = "ready"
      /\ files[k].status \in {"analyzing", "ready"}

\* entries named as f that are being analyzed are ready, or removed, later
FileFlowReady ==
  \A f \in FileInputs :
    (\E k \in 1..Len(files) :
       files[k].name = f.name /\ files[k].status = "analyzing")
    ~> (\A k \in 1..Len(files) :
          files[k].name = f.name => files[k].status = "ready")

\* C17: every file passed to handleFileUpload is added to the file list
\* with status 'analyzing' and, unless it is removed first, has status
\* 'ready' when its 3-second timer has fired, which happens.
FileFlow ==
  /\ [][FileFlowStep]_vars
  /\ []FileFlowReadyInTime
  /\ FileFlowReady

\* two files were uploaded, the first is ready and the second is being
\* analyzed
FileFlowWitness ==
  /\ pc = "files"
  /\ Len(files) = 2
  /\ files[1].status = "ready"
  /\ files[2].status = "analyzing"
  /\ files[1].uploadedAt + AnalysisDelay = clock

\* C20: only files whose name ends in .xlsx, .xls or .csv reach the file
\* list, by a drop and by a file selection.
OnlyExcelFilesReachTheList ==
  pc = "files" => \A k \in 1..Len(files) : isExcelFile(files[k])

\* C24: an entry is 'ready' only once the 3-second timer started by its
\* own upload has fired; the timer of an earlier upload does not change it.
ReadyOnlyByOwnTimer ==
  pc = "files" =>
    \A k \in 1..Len(files) :
      files[k].status = "ready" =>
        files[k].uploadedAt + AnalysisDelay <= clock

\* the number the statistics show as "Ready for Analysis" (App.tsx 233-235)
readyCount(list) == Len(SelectSeq(list, LAMBDA f : f.status = "ready"))

\* no entry has status 'error' and the entries counted as ready are at
\* most the entries of the list
FileStatusRange ==
  pc = "files" =>
    /\ \A k \in 1..Len(files) : files[k].status \in {"analyzing", "ready"}
    /\ readyCount(files) <= Len(files)

\* an entry that is being analyzed after a step was being analyzed before
\* it, or is the entry the step added
FileStatusStep ==
  \A k \in 1..Len(files') :
    files'[k].status = "analyzing" =>
      \/ \E j \in 1..Len(files) : files[j] = files'[k]
      \/ k = Len(files') /\ Len(files') = Len(files) + 1

\* C29: no file entry has status 'error', no entry goes from 'ready' back
\* to 'analyzing', and the entries with status 'ready' are at most the
\* entries of the file list.
FileStatusNeverGoesBack ==
  /\ []FileStatusRange
  /\ [][FileStatusStep]_vars

\* two entries of one name are ready, and the timer of the second one has
\* fired on them as well
FileStatusNeverGoesBackWitness ==
  /\ pc = "files"
  /\ Len(files) = 2
  /\ files[1].name = files[2].name
  /\ files[1].status = "ready"
  /\ files[2].status = "ready"
  /\ files[2].uploadedAt + AnalysisDelay = clock
  /\ timers = << >>

\* the entries named fileName that precede position k of list
removedBefore(list, fileName, k) ==
  Cardinality({ j \in 1..(k - 1) : list[j].name = fileName })

\* after is before without its entries named fileName, the others in
\* their order and as they were
isWithout(after, before, fileName) ==
  /\ Len(after) = Len(before) - removedBefore(before, fileName, Len(before) + 1)
  /\ \A k \in 1..Len(before) :
       before[k].name # fileName =>
         after[k - removedBefore(before, fileName, k)] = before[k]

\* C30: handleFileRemove(name) removes exactly the entries named name,
\* keeps every other entry with its status and relative order, and leaves
\* sqlQueries, knowledge and error unchanged.
RemoveRemovesExactlyTheName ==
  [][Len(files') < Len(files) =>
       /\ \E k \in 1..Len(files) : isWithout(files', files, files[k].name)
       /\ UNCHANGED <<sqlQueries, knowledge, error>>]_vars

\* a file was uploaded twice and its two entries were removed while their
\* timers were pending
RemoveRemovesExactlyTheNameWitness ==
  /\ pc = "files"
  /\ files = << >>
  /\ Len(timers) = 2
  /\ timers[1].callback = "ready"
  /\ timers[2].callback = "ready"
  /\ timers[1].arg = timers[2].arg

(***************************************************************************)
(* The render that follows onKnowledgeParsed.  setKnowledge makes React    *)
(* render App again with the knowledge base it was handed: App.tsx lines   *)
(* 241 and 247 read the length of its tableSpecifications and of its       *)
(* testScenarios, and line 180 renders KnowledgeViewer (FileManager.tsx    *)
(* lines 115-369) with it, whose four sections start expanded and show     *)
(* their content only while they are expanded (expandedSections).  A read  *)
(* of a member of null or undefined, a call of map or join on what is no  *)
(* array,                                                                  *)
(* an object given to React as a child and a comparison that converts an   *)
(* object with a member named toString throw; src/ holds no error          *)
(* boundary, so that React 18 then removes the whole tree, and with it     *)
(* the state of every component.                                           *)
(***************************************************************************)
\* the names of the members a render reads
RenderKeys ==
  [tableSpecifications |->
     << "t", "a", "b", "l", "e", "S", "p", "e", "c", "i", "f", "i", "c",
        "a", "t", "i", "o", "n", "s" >>,
   functionalRequirements |->
     << "f", "u", "n", "c", "t", "i", "o", "n", "a", "l", "R", "e", "q",
        "u", "i", "r", "e", "m", "e", "n", "t", "s" >>,
   businessRules |->
     << "b", "u", "s", "i", "n", "e", "s", "s", "R", "u", "l", "e", "s" >>,
   length |->
     << "l", "e", "n", "g", "t", "h" >>,
   tableName |->
     << "t", "a", "b", "l", "e", "N", "a", "m", "e" >>,
   columns |->
     << "c", "o", "l", "u", "m", "n", "s" >>,
   name |->
     << "n", "a", "m", "e" >>,
   dataType |->
     << "d", "a", "t", "a", "T", "y", "p", "e" >>,
   constraints |->
     << "c", "o", "n", "s", "t", "r", "a", "i", "n", "t", "s" >>,
   type |->
     << "t", "y", "p", "e" >>,
   relationships |->
     << "r", "e", "l", "a", "t", "i", "o", "n", "s", "h", "i", "p", "s" >>,
   fromTable |->
     << "f", "r", "o", "m", "T", "a", "b", "l", "e" >>,
   fromColumn |->
     << "f", "r", "o", "m", "C", "o", "l", "u", "m", "n" >>,
   toTable |->
     << "t", "o", "T", "a", "b", "l", "e" >>,
   toColumn |->
     << "t", "o", "C", "o", "l", "u", "m", "n" >>,
   description |->
     << "d", "e", "s", "c", "r", "i", "p", "t", "i", "o", "n" >>,
   businessLogic |->
     << "b", "u", "s", "i", "n", "e", "s", "s", "L", "o", "g", "i", "c" >>,
   transformations |->
     << "t", "r", "a", "n", "s", "f", "o", "r", "m", "a", "t", "i", "o",
        "n", "s" >>,
   sqlLogic |->
     << "s", "q", "l", "L", "o", "g", "i", "c" >>,
   rule |->
     << "r", "u", "l", "e" >>,
   sqlCondition |->
     << "s", "q", "l", "C", "o", "n", "d", "i", "t", "i", "o", "n" >>,
   validationType |->
     << "v", "a", "l", "i", "d", "a", "t", "i", "o", "n", "T", "y", "p",
        "e" >>,
   testQueries |->
     << "t", "e", "s", "t", "Q", "u", "e", "r", "i", "e", "s" >>,
   query |->
     << "q", "u", "e", "r", "y" >>,
   expectedResults |->
     << "e", "x", "p", "e", "c", "t", "e", "d", "R", "e", "s", "u", "l",
        "t", "s" >>,
   testScenarios |->
     << "t", "e", "s", "t", "S", "c", "e", "n", "a", "r", "i", "o", "s" >>]

\* null and undefined: reading a member of them throws a TypeError
isNullish(v) == v.t \in { "null", "undefined" }

\* v.name for a v that is neither null nor undefined: an own member of an
\* object, a named property or the length of an array, the length of a
\* string, and undefined otherwise (no prototype holds a member of a name
\* in RenderKeys).  An array that was given named properties holds their
\* names in keys and their values in s.
member(v, name) ==
  IF v.t = "object" THEN getProperty(v, name)
  ELSE IF v.t = "array"
    THEN IF \E k \in 1..Len(v.keys) : v.keys[k] = name
           THEN v.s[CHOOSE k \in 1..Len(v.keys) : v.keys[k] = name]
         ELSE IF name = RenderKeys.length
           THEN Val("number", numberToString(Len(v.items)), <<>>, <<>>)
         ELSE Undefined
  ELSE IF v.t = "string" /\ name = RenderKeys.length
    THEN Val("number", numberToString(Len(v.s)), <<>>, <<>>)
  ELSE Undefined

\* React renders v as a child {v}: a string or a number as text, nothing
\* for null, undefined and a boolean, an array child by child; an object
\* is not valid as a React child
RECURSIVE isChild(_)
isChild(v) ==
  \/ v.t \in { "undefined", "null", "true", "false", "string", "number" }
  \/ /\ v.t = "array"
     /\ \A k \in 1..Len(v.items) : isChild(v.items[k])

\* Number(str) > 0: str without the white space around it is Infinity, a
\* hexadecimal, octal or binary literal, or a decimal literal, and what it
\* spells is above zero; text that spells no number is NaN
stringPositive(str) ==
  LET first    == runEnd(str, 1, RegexWhiteSpace)
      last     == CHOOSE j \in (first - 1)..Len(str) :
                    /\ \A k \in (j + 1)..Len(str) : str[k] \in RegexWhiteSpace
                    /\ (j = first - 1 \/ str[j] \notin RegexWhiteSpace)
      text     == SubSeq(str, first, last)
      body     == IF charAt(text, 1) \in { "+", "-" } THEN Tail(text)
                  ELSE text
      intEnd   == runEnd(body, 1, DigitSet)
      hasPoint == charAt(body, intEnd) = "."
      fracEnd  == IF hasPoint THEN runEnd(body, intEnd + 1, DigitSet)
                  ELSE intEnd
      hasExp   == charAt(body, fracEnd) \in { "e", "E" }
      expStart == IF charAt(body, fracEnd + 1) \in { "+", "-" }
                    THEN fracEnd + 2 ELSE fracEnd + 1
      expEnd   == IF hasExp /\ expStart <= Len(body)
                    THEN runEnd(body, expStart, DigitSet) ELSE fracEnd
      int      == SubSeq(body, 1, intEnd - 1)
      frac     == IF hasPoint THEN SubSeq(body, intEnd + 1, fracEnd - 1)
                  ELSE <<>>
      radix    == IF charAt(text, 2) \in { "x", "X" }
                    THEN DigitSet \cup { "a", "b", "c", "d", "e", "f",
                                         "A", "B", "C", "D", "E", "F" }
                  ELSE IF charAt(text, 2) \in { "o", "O" }
                    THEN { "0", "1", "2", "3", "4", "5", "6", "7" }
                  ELSE IF charAt(text, 2) \in { "b", "B" } THEN { "0", "1" }
                  ELSE {}
  IN  IF text = <<>> THEN FALSE
      ELSE IF body = InfinityText THEN text[1] # "-"
      ELSE IF /\ Len(text) >= 3
              /\ text[1] = "0"
              /\ \A k \in 3..Len(text) : text[k] \in radix
        THEN \E k \in 3..Len(text) : text[k] # "0"
      ELSE /\ int \o frac # <<>>
           /\ hasExp => expEnd > expStart
           /\ expEnd = Len(body) + 1
           /\ text[1] # "-"
           /\ numberText(FALSE, int, frac,
                         hasExp /\ charAt(body, fracEnd + 1) = "-",
                         IF hasExp THEN SubSeq(body, expStart, expEnd - 1)
                         ELSE <<>>) # << "0" >>

\* v > 0 for a v the comparison converts without throwing: an array is
\* compared as the text it joins to, an object is NaN
isPositive(v) ==
  IF v.t = "number" THEN v.s[1] # "-" /\ v.s # << "0" >>
  ELSE IF v.t = "true" THEN TRUE
  ELSE IF v.t = "string" THEN stringPositive(v.s)
  ELSE IF v.t = "array" /\ ~toStringThrows(v)
    THEN stringPositive(templateString(v))
  ELSE FALSE

\* {list.length} renders
counted(list) ==
  /\ ~isNullish(list)
  /\ isChild(member(list, RenderKeys.length))

\* {list.map(each)} renders: map is a function of arrays only
mapped(list, each(_)) ==
  /\ list.t = "array"
  /\ \A k \in 1..Len(list.items) : each(list.items[k])

\* {list.length > 0 && (... list.map(each) ...)} renders
mappedIfAny(list, each(_)) ==
  /\ ~isNullish(list)
  /\ ~toStringThrows(member(list, RenderKeys.length))
  /\ isPositive(member(list, RenderKeys.length)) => mapped(list, each)

\* {item.name} renders for each of names
shown(item, names) ==
  /\ ~isNullish(item)
  /\ \A name \in names : isChild(member(item, name))

\* renderTableSpecifications (FileManager.tsx lines 130-189) for one table;
\* constraint.columns.join(', ') is a call of join, a function of arrays
\* only, that converts each element to a string
rendersTable(table) ==
  LET rendersColumn(column) ==
        shown(column, { RenderKeys.name, RenderKeys.dataType })
      rendersConstraint(constraint) ==
        /\ shown(constraint, { RenderKeys.name, RenderKeys.type })
        /\ member(constraint, RenderKeys.columns).t = "array"
        /\ ~toStringThrows(member(constraint, RenderKeys.columns))
      rendersRelationship(rel) ==
        shown(rel, { RenderKeys.fromTable, RenderKeys.fromColumn,
                     RenderKeys.toTable, RenderKeys.toColumn,
                     RenderKeys.type })
  IN  /\ shown(table, { RenderKeys.tableName })
      /\ mapped(member(table, RenderKeys.columns), rendersColumn)
      /\ mappedIfAny(member(table, RenderKeys.constraints), rendersConstraint)
      /\ mappedIfAny(member(table, RenderKeys.relationships),
                     rendersRelationship)

\* renderFunctionalRequirements (lines 191-224) for one requirement
rendersRequirement(req) ==
  LET rendersTransformation(transformation) ==
        shown(transformation, { RenderKeys.name, RenderKeys.description,
                                RenderKeys.sqlLogic })
  IN  /\ shown(req, { RenderKeys.description, RenderKeys.businessLogic })
      /\ mappedIfAny(member(req, RenderKeys.transformations),
                     rendersTransformation)

\* renderBusinessRules (lines 226-254) for one rule
rendersRule(rule) ==
  shown(rule, { RenderKeys.rule, RenderKeys.sqlCondition,
                RenderKeys.validationType })

\* renderTestScenarios (lines 256-293) for one scenario
rendersScenario(scenario) ==
  LET rendersQuery(query) ==
        shown(query, { RenderKeys.description, RenderKeys.query })
  IN  /\ shown(scenario, { RenderKeys.name, RenderKeys.description,
                           RenderKeys.expectedResults })
      /\ mapped(member(scenario, RenderKeys.testQueries), rendersQuery)

\* KnowledgeViewer (lines 115-369) renders parsedKnowledge, which is
\* neither null nor undefined, while its expandedSections is expanded: the
\* four counts are shown in the header and in the titles of the sections
\* (lines 297, 309, 326, 343, 360), the content of a section only while
\* the section is expanded (lines 311, 328, 345, 362)
rendersKnowledgeViewer(parsedKnowledge, expanded) ==
  LET tableSpecifications ==
        member(parsedKnowledge, RenderKeys.tableSpecifications)
      functionalRequirements ==
        member(parsedKnowledge, RenderKeys.functionalRequirements)
      businessRules == member(parsedKnowledge, RenderKeys.businessRules)
      testScenarios == member(parsedKnowledge, RenderKeys.testScenarios)
  IN  /\ counted(tableSpecifications)
      /\ counted(functionalRequirements)
      /\ counted(businessRules)
      /\ counted(testScenarios)
      /\ expanded.tables => mapped(tableSpecifications, rendersTable)
      /\ expanded.requirements =>
           mapped(functionalRequirements, rendersRequirement)
      /\ expanded.rules => mapped(businessRules, rendersRule)
      /\ expanded.scenarios => mapped(testScenarios, rendersScenario)

\* App renders with parsedKnowledge for knowledge (App.tsx lines 179-186,
\* 241 and 247), expanded being the expandedSections of its KnowledgeViewer
rendersApp(parsedKnowledge, expanded) ==
  \/ isFalsy(parsedKnowledge)
  \/ /\ rendersKnowledgeViewer(parsedKnowledge, expanded)
     /\ counted(member(parsedKnowledge, RenderKeys.tableSpecifications))
     /\ counted(member(parsedKnowledge, RenderKeys.testScenarios))

(***************************************************************************)
(* ExcelDocumentParser (part_002) under App.  run follows the one call of  *)
(* parseExcelFile in progress:                                             *)
(*   [step, file, knowledge, requested, settled, callbacks, number];       *)
(* step is "reading" while file.arrayBuffer() is awaited, "awaitWorkbook"  *)
(* and "awaitScenarios" while the two service operations are awaited and   *)
(* "done" after the last line; knowledge is the local constant of line     *)
(* 96, requested the requests sent to Groq, settled what the service       *)
(* operations awaited settled with and callbacks the props called by this  *)
(* call, number the calls started so far.  A continuation runs with the    *)
(* code that follows it up to the next await that waits for an outside     *)
(* event.                                                                  *)
(***************************************************************************)
\* the model follows MaxRuns calls of parseExcelFile
MaxRuns == 2

\* the value of the one filled cell of the workbooks read
CellValue == << "Q", "7" >>

\* the sheet XLSX.read gives for cells over A1:B1, and for the one cell A1
ParserSheet(ref) ==
  [ref |-> ref,
   cells |-> [a \in GridAddresses |->
                IF a = Address(1, 1) THEN StringCell(CellValue)
                ELSE AbsentCell]]

\* XLSX.read(arrayBuffer, {type: 'array'}) of a file holding one sheet
ParserWorkbook(ref) ==
  [SheetNames |-> << SheetName(1) >>, Sheets |-> << ParserSheet(ref) >>]

\* 'File is password-protected', an Error XLSX.read throws
FileIsPasswordProtected ==
  << "F", "i", "l", "e", " ", "i", "s", " ", "p", "a", "s", "s", "w",
     "o", "r", "d", "-", "p", "r", "o", "t", "e", "c", "t", "e", "d" >>

\* the message of the DOMException file.arrayBuffer() rejects with
FileCouldNotBeRead ==
  << "T", "h", "e", " ", "r", "e", "q", "u", "e", "s", "t", "e", "d",
     " ", "f", "i", "l", "e", " ", "c", "o", "u", "l", "d", " ", "n",
     "o", "t", " ", "b", "e", " ", "r", "e", "a", "d" >>

\* 'Unknown error' (line 121)
UnknownError ==
  << "U", "n", "k", "n", "o", "w", "n", " ", "e", "r", "r", "o", "r" >>

\* 'Failed to parse Excel file' (line 123)
FailedToParseExcelFile ==
  << "F", "a", "i", "l", "e", "d", " ", "t", "o", " ", "p", "a", "r",
     "s", "e", " ", "E", "x", "c", "e", "l", " ", "f", "i", "l", "e" >>

\* the TypeError of line 106 when knowledge is null
CannotSetProperty ==
  << "C", "a", "n", "n", "o", "t", " ", "s", "e", "t", " ", "p", "r",
     "o", "p", "e", "r", "t", "i", "e", "s", " ", "o", "f", " ", "n",
     "u", "l", "l", " ", "(", "s", "e", "t", "t", "i", "n", "g", " ",
     "'", "t", "e", "s", "t", "S", "c", "e", "n", "a", "r", "i", "o",
     "s", "'", ")" >>

\* the property name testScenarios
TestScenariosKey ==
  << "t", "e", "s", "t", "S", "c", "e", "n", "a", "r", "i", "o", "s" >>

\* a thrown value: an Error with its message, or a value that is not an
\* Error
ErrorValue(message) == [isError |-> TRUE, message |-> message]

NotAnError == [isError |-> FALSE, message |-> << >>]

\* a File: reads tells what reading it gives: a workbook, a rejection of
\* arrayBuffer(), an Error of XLSX.read, or a thrown value that is not
\* an Error
ParserFile(name, size, reads, ref) ==
  [name |-> name, size |-> size, reads |-> reads,
   workbook |-> ParserWorkbook(ref)]

ParserFiles ==
  { ParserFile(<< "k", ".", "x", "l", "s", "x" >>, 1, "workbook",
               RangeRef(1, 1, 2, 1)),
    ParserFile(<< "c", ".", "x", "l", "s" >>, 2, "workbook", Address(1, 1)),
    ParserFile(<< "n", ".", "t", "x", "t" >>, 3, "workbook",
               RangeRef(1, 1, 2, 1)),
    ParserFile(<< "p", ".", "x", "l", "s" >>, 4, "throwsError",
               RangeRef(1, 1, 2, 1)),
    ParserFile(<< "u", ".", "x", "l", "s", "x" >>, 5, "rejects",
               RangeRef(1, 1, 2, 1)),
    ParserFile(<< "o", ".", "x", "l", "s", "x" >>, 6, "throwsOther",
               RangeRef(1, 1, 2, 1)) }

\* e.dataTransfer.files of a drop on the parser
ParserFileLists(n) == UNION { [1..m -> ParserFiles] : m \in 0..n }

\* a knowledge base with a table, a requirement and a rule, each with
\* every list KnowledgeViewer reads
FullKnowledgeText ==
  << "{", "\"", "t", "a", "b", "l", "e", "S", "p", "e", "c", "i", "f", "i",
     "c", "a", "t", "i", "o", "n", "s", "\"", ":", "[", "{", "\"", "t",
     "a", "b", "l", "e", "N", "a", "m", "e", "\"", ":", "\"", "t", "\"",
     ",", "\"", "c", "o", "l", "u", "m", "n", "s", "\"", ":", "[", "{",
     "\"", "n", "a", "m", "e", "\"", ":", "\"", "c", "\"", ",", "\"", "d",
     "a", "t", "a", "T", "y", "p", "e", "\"", ":", "\"", "i", "n", "t",
     "\"", ",", "\"", "i", "s", "P", "r", "i", "m", "a", "r", "y", "K",
     "e", "y", "\"", ":", "t", "r", "u", "e", "}", "]", ",", "\"", "c",
     "o", "n", "s", "t", "r", "a", "i", "n", "t", "s", "\"", ":", "[", "{",
     "\"", "n", "a", "m", "e", "\"", ":", "\"", "k", "\"", ",", "\"", "t",
     "y", "p", "e", "\"", ":", "\"", "P", "K", "\"", ",", "\"", "c", "o",
     "l", "u", "m", "n", "s", "\"", ":", "[", "\"", "c", "\"", "]", "}",
     "]", ",", "\"", "r", "e", "l", "a", "t", "i", "o", "n", "s", "h", "i",
     "p", "s", "\"", ":", "[", "]", "}", "]", ",", "\"", "f", "u", "n",
     "c", "t", "i", "o", "n", "a", "l", "R", "e", "q", "u", "i", "r", "e",
     "m", "e", "n", "t", "s", "\"", ":", "[", "{", "\"", "d", "e", "s",
     "c", "r", "i", "p", "t", "i", "o", "n", "\"", ":", "\"", "d", "\"",
     ",", "\"", "b", "u", "s", "i", "n", "e", "s", "s", "L", "o", "g", "i",
     "c", "\"", ":", "\"", "b", "\"", ",", "\"", "t", "r", "a", "n", "s",
     "f", "o", "r", "m", "a", "t", "i", "o", "n", "s", "\"", ":", "[", "]",
     "}", "]", ",", "\"", "b", "u", "s", "i", "n", "e", "s", "s", "R", "u",
     "l", "e", "s", "\"", ":", "[", "{", "\"", "r", "u", "l", "e", "\"",
     ":", "\"", "r", "\"", ",", "\"", "s", "q", "l", "C", "o", "n", "d",
     "i", "t", "i", "o", "n", "\"", ":", "\"", "c", "\"", ",", "\"", "v",
     "a", "l", "i", "d", "a", "t", "i", "o", "n", "T", "y", "p", "e", "\"",
     ":", "\"", "C", "H", "E", "C", "K", "\"", "}", "]", ",", "\"", "t",
     "e", "s", "t", "S", "c", "e", "n", "a", "r", "i", "o", "s", "\"", ":",
     "[", "]", "}" >>

\* the completions of the request of parseExcelWorkbook: a knowledge base,
\* an object of another shape, an array, a number, a string, a boolean,
\* the text null, text that is not JSON, null content and no choice
WorkbookResponses ==
  { Completion(Val("string", text, <<>>, <<>>)) :
      text \in { EmptyKnowledgeText, FullKnowledgeText,
                 JsonFence \o ObjectText \o Fence, ArrayText, << "1" >>,
                 << "\"", "s", "\"" >>, << "t", "r", "u", "e" >>,
                 << "n", "u", "l", "l" >>, << "x" >> } }
    \cup { Completion(Null), [choices |-> <<>>] }

\* [{"name":"n","testQueries":[]}], a list of one scenario
ScenarioListText ==
  << "[", "{", "\"", "n", "a", "m", "e", "\"", ":", "\"", "n", "\"", ",",
     "\"", "t", "e", "s", "t", "Q", "u", "e", "r", "i", "e", "s", "\"",
     ":", "[", "]", "}", "]" >>

\* the completions of the request of generateTestScenarios: those of the
\* service model, the empty list of scenarios and a list of one scenario
ScenarioResponses ==
  Responses
    \cup { Completion(Val("string", text, <<>>, <<>>)) :
             text \in { << "[", "]" >>, ScenarioListText } }

\* the test of handleDrop's find (lines 44-46)
isWorkbookFile(file) ==
  \/ endsWith(file.name, << ".", "x", "l", "s", "x" >>)
  \/ endsWith(file.name, << ".", "x", "l", "s" >>)

\* files.find(...) of lines 44-46 from index k on; found = FALSE stands
\* for undefined
RECURSIVE findWorkbookFile(_, _)
findWorkbookFile(list, k) ==
  IF k > Len(list) THEN [found |-> FALSE, file |-> << >>]
  ELSE IF isWorkbookFile(list[k]) THEN [found |-> TRUE, file |-> list[k]]
  ELSE findWorkbookFile(list, k + 1)

\* the object of a setParsingStatus call without an error field
status(isParsing, progress, currentStep) ==
  [isParsing |-> isParsing, progress |-> progress,
   currentStep |-> currentStep, error |-> << >>, hasError |-> FALSE]

\* error instanceof Error ? error.message : fallback (lines 121 and 123)
messageOf(e, fallback) == IF e.isError THEN e.message ELSE fallback

\* the status while no ExcelDocumentParser is mounted
NoStatus ==
  [isParsing |-> FALSE, progress |-> 0, currentStep |-> "unmounted",
   error |-> << >>, hasError |-> FALSE]

\* App and its components are mounted
isMounted == parsingStatus # NoStatus

\* the render of App threw: React removes the tree, and the state of App
\* and of ExcelDocumentParser is no more
removeTree ==
  /\ expandedSections' = initialExpandedSections
  /\ knowledge' = Undefined
  /\ error' = Undefined
  /\ parsingStatus' = NoStatus
  /\ isDragOver' = FALSE

\* App starts with the parser mounted
InitParser ==
  /\ HelperIdle
  /\ AppIdle
  /\ pc = "parser"

\* setParsingStatus(value): a setter of a component that is no longer
\* mounted does nothing
setParsingStatus(value) ==
  parsingStatus' = IF isMounted THEN value ELSE NoStatus

\* handleKnowledgeParsed (App.tsx lines 66-69); the KnowledgeViewer that
\* is mounted keeps its expandedSections, one that is mounted for the new
\* knowledge base starts with the initial ones (App.tsx lines 179-180)
handleKnowledgeParsed(parsedKnowledge) ==
  IF isMounted
  THEN /\ knowledge' = parsedKnowledge
       /\ error' = Null
       /\ expandedSections' =
            IF isFalsy(parsedKnowledge) \/ isFalsy(knowledge)
              THEN initialExpandedSections
            ELSE expandedSections
  ELSE UNCHANGED <<knowledge, error, expandedSections>>

\* handleError (App.tsx lines 71-73)
handleError(errorMessage) ==
  /\ error' = IF isMounted THEN Val("string", errorMessage, <<>>, <<>>)
              ELSE error
  /\ UNCHANGED <<knowledge, expandedSections>>

\* the catch block (lines 115-124) entered with the thrown value e, r
\* being the call so far
catchBlock(e, r) ==
  /\ setParsingStatus(
       [isParsing |-> FALSE, progress |-> 0, currentStep |-> "Error occurred",
        error |-> messageOf(e, UnknownError), hasError |-> TRUE])
  /\ handleError(messageOf(e, FailedToParseExcelFile))
  /\ run' = [r EXCEPT !.step = "done", !.callbacks = Append(@, "onError")]

\* lines 60-69: the call of parseExcelFile(file) up to its first await
parseExcelFileBegin(found, file) ==
  IF found
  THEN /\ parsingStatus' = status(TRUE, 0, "Reading Excel file...")
       /\ run' = [step |-> "reading", file |-> file, knowledge |-> Undefined,
                  requested |-> << >>, settled |-> << >>,
                  callbacks |-> << >>,
                  number |-> run.number + 1]
       /\ call' = IdleCall
  ELSE UNCHANGED <<parsingStatus, run, call>>

\* handleDragOver (lines 29-32); the drop zone takes no pointer event
\* while isParsing (line 136)
ParserDragOver ==
  /\ pc = "parser"
  /\ isMounted
  /\ ~parsingStatus.isParsing
  /\ isDragOver' = TRUE
  /\ UNCHANGED <<helperVars, call, sqlResponse, messages, inputValue,
                 isTyping, sqlQueries, files, isUploading, clock, ticks, timers,
                 parserVars>>

\* handleDragLeave (lines 34-37)
ParserDragLeave ==
  /\ pc = "parser"
  /\ isMounted
  /\ ~parsingStatus.isParsing
  /\ isDragOver' = FALSE
  /\ UNCHANGED <<helperVars, call, sqlResponse, messages, inputValue,
                 isTyping, sqlQueries, files, isUploading, clock, ticks, timers,
                 parserVars>>

\* what files.find(...) of handleDrop (lines 44-46) returns over the lists
\* of at most MaxDropped files
droppedWorkbooks ==
  { findWorkbookFile(list, 1) : list \in ParserFileLists(MaxDropped) }

\* handleDrop (lines 39-51)
ParserDrop ==
  /\ pc = "parser"
  /\ isMounted
  /\ ~parsingStatus.isParsing
  /\ run.number < MaxRuns
  /\ isDragOver' = FALSE
  /\ \E file \in droppedWorkbooks :
       parseExcelFileBegin(file.found, file.file)
  /\ UNCHANGED <<helperVars, sqlResponse, messages, inputValue, isTyping,
                 sqlQueries, files, isUploading, clock, ticks, timers, knowledge,
                 error, expandedSections>>

\* handleFileSelect (lines 53-58) on e.target.files, of the input that is
\* disabled while isParsing (line 147)
ParserSelectFile ==
  /\ pc = "parser"
  /\ isMounted
  /\ ~parsingStatus.isParsing
  /\ run.number < MaxRuns
  /\ \E list \in ParserFileLists(1) :
       parseExcelFileBegin(Len(list) > 0,
                           IF Len(list) > 0 THEN list[1] ELSE << >>)
  /\ UNCHANGED <<helperVars, sqlResponse, messages, inputValue, isTyping,
                 sqlQueries, files, isUploading, isDragOver, clock, ticks, timers,
                 knowledge, error, expandedSections>>

\* variant: the call goes on to the test scenarios after parseExcelWorkbook
\* failed, with no knowledge base
afterWorkbook_IgnoresFailure(c, r) ==
  /\ setParsingStatus(status(TRUE, 90, "Processing results..."))
  /\ call' = generateTestScenariosBegin(
               IF c.outcome.kind = "throw" THEN Null ELSE c.outcome.value)
  /\ run' = [r EXCEPT !.step = "awaitScenarios",
                      !.knowledge =
                        IF c.outcome.kind = "throw" THEN Null
                        ELSE c.outcome.value,
                      !.settled = Append(@, c.outcome),
                      !.requested = @ \o call'.sent]
  /\ UNCHANGED <<knowledge, error, expandedSections>>

\* lines 96-105: parseExcelWorkbook has settled as c; the call goes on
\* to the await of generateTestScenarios, or to the catch block
afterWorkbook(c, r) ==
  IF c.outcome.kind = "throw"
  THEN /\ catchBlock(ErrorValue(c.outcome.message),
                     [r EXCEPT !.settled = Append(@, c.outcome)])
       /\ call' = c
  ELSE /\ setParsingStatus(status(TRUE, 90, "Processing results..."))
       /\ call' = generateTestScenariosBegin(c.outcome.value)
       /\ run' = [r EXCEPT !.step = "awaitScenarios",
                           !.knowledge = c.outcome.value,
                           !.settled = Append(@, c.outcome),
                           !.requested = @ \o call'.sent]
       /\ UNCHANGED <<knowledge, error, expandedSections>>

\* lines 79-87: workbookInfo
workbookInfoOf(workbook, file) ==
  [SheetNames |-> workbook.SheetNames, Sheets |-> workbook.Sheets,
   metadata |-> [fileName |-> file.name, fileSize |-> file.size,
                 sheetCount |-> Len(workbook.SheetNames)]]

\* line 96: GroqService.parseExcelWorkbook(workbookInfo) up to its await,
\* for the workbookInfo of each file
workbookCalls ==
  [file \in ParserFiles |->
     parseExcelWorkbookBegin(workbookInfoOf(file.workbook, file))]

\* lines 72-96: parseExcelWorkbook has run up to its await as c; its
\* request is sent, or it has failed before sending one
afterRead(c, r) ==
  IF c.phase = "settled"
    THEN afterWorkbook(c, r)
    ELSE /\ setParsingStatus(
              status(TRUE, 60, "Sending to Groq for analysis..."))
         /\ call' = c
         /\ run' = r
         /\ UNCHANGED <<knowledge, error, expandedSections>>

\* file.arrayBuffer() resolves and XLSX.read returns or throws
ReadResolves ==
  /\ pc = "parser"
  /\ run.step = "reading"
  /\ run.file.reads # "rejects"
  /\ IF run.file.reads = "workbook"
       THEN \E c \in { workbookCalls[run.file] } :
              afterRead(c, [run EXCEPT !.step = "awaitWorkbook",
                                       !.requested = @ \o c.sent])
     ELSE /\ catchBlock(IF run.file.reads = "throwsError"
                          THEN ErrorValue(FileIsPasswordProtected)
                          ELSE NotAnError, run)
          /\ UNCHANGED call
  /\ UNCHANGED <<helperVars, sqlResponse, messages, inputValue, isTyping,
                 sqlQueries, files, isUploading, isDragOver, clock, ticks, timers>>

\* file.arrayBuffer() rejects
ReadRejects ==
  /\ pc = "parser"
  /\ run.step = "reading"
  /\ run.file.reads = "rejects"
  /\ catchBlock(ErrorValue(FileCouldNotBeRead), run)
  /\ UNCHANGED <<helperVars, call, sqlResponse, messages, inputValue,
                 isTyping, sqlQueries, files, isUploading, isDragOver, clock, ticks,
                 timers>>

\* the request of parseExcelWorkbook resolves
WorkbookResolves ==
  /\ pc = "parser"
  /\ run.step = "awaitWorkbook"
  /\ \E response \in WorkbookResponses :
       afterWorkbook(resume(call, response, << DateNow(clock) >>), run)
  /\ UNCHANGED <<helperVars, sqlResponse, messages, inputValue, isTyping,
                 sqlQueries, files, isUploading, isDragOver, clock, ticks, timers>>

\* the request of parseExcelWorkbook is rejected
WorkbookRejects ==
  /\ pc = "parser"
  /\ run.step = "awaitWorkbook"
  /\ afterWorkbook(reject(call), run)
  /\ UNCHANGED <<helperVars, sqlResponse, messages, inputValue, isTyping,
                 sqlQueries, files, isUploading, isDragOver, clock, ticks, timers>>

\* the TypeError of line 106 when knowledge is a number, a string or a
\* boolean: Cannot create property 'testScenarios' on number '1'
CannotCreateProperty(v) ==
  << "C", "a", "n", "n", "o", "t", " ", "c", "r", "e", "a", "t", "e", " ",
     "p", "r", "o", "p", "e", "r", "t", "y", " ", "'", "t", "e", "s", "t",
     "S", "c", "e", "n", "a", "r", "i", "o", "s", "'", " ", "o", "n", " " >>
    \o (IF v.t = "number" THEN << "n", "u", "m", "b", "e", "r" >>
        ELSE IF v.t = "string" THEN << "s", "t", "r", "i", "n", "g" >>
        ELSE << "b", "o", "o", "l", "e", "a", "n" >>)
    \o << " ", "'" >> \o templateString(v) \o << "'" >>

\* line 106, knowledge.testScenarios = testScenarios, in a module, which
\* is strict code: an object gets or changes its member, an array gets a
\* named property, and the assignment throws a TypeError when knowledge
\* is null or a primitive value
setTestScenarios(parsedKnowledge, testScenarios) ==
  IF parsedKnowledge.t = "object"
    THEN Returned(putMember(parsedKnowledge, TestScenariosKey, testScenarios))
  ELSE IF parsedKnowledge.t = "array"
    THEN Returned(Val("array", << testScenarios >>, << TestScenariosKey >>,
                      parsedKnowledge.items))
  ELSE IF parsedKnowledge.t = "null" THEN Thrown(CannotSetProperty)
  ELSE Thrown(CannotCreateProperty(parsedKnowledge))

\* lines 108-114: the status of the end and onKnowledgeParsed(knowledge),
\* and the render of App with the two new states, when it is mounted
complete(parsedKnowledge, r) ==
  /\ run' = [r EXCEPT !.step = "done", !.knowledge = parsedKnowledge,
                      !.callbacks = Append(@, "onKnowledgeParsed")]
  /\ IF isMounted =>
          rendersApp(parsedKnowledge,
                     IF isFalsy(knowledge) THEN initialExpandedSections
                     ELSE expandedSections)
       THEN /\ setParsingStatus(status(FALSE, 100, "Parsing complete!"))
            /\ handleKnowledgeParsed(parsedKnowledge)
            /\ UNCHANGED isDragOver
       ELSE removeTree

\* lines 105-114: generateTestScenarios has settled as c
afterScenarios(c, r) ==
  LET done == [r EXCEPT !.settled = Append(@, c.outcome)]
      assigned == setTestScenarios(r.knowledge, c.outcome.value)
  IN  /\ call' = c
      /\ IF c.outcome.kind = "throw"
           THEN /\ catchBlock(ErrorValue(c.outcome.message), done)
                /\ UNCHANGED isDragOver
         ELSE IF assigned.kind = "throw"
           THEN /\ catchBlock(ErrorValue(assigned.message), done)
                /\ UNCHANGED isDragOver
         ELSE complete(assigned.value, done)

\* the request of generateTestScenarios resolves
ScenariosResolve ==
  /\ pc = "parser"
  /\ run.step = "awaitScenarios"
  /\ \E response \in ScenarioResponses :
       afterScenarios(resume(call, response, << DateNow(clock) >>), run)
  /\ UNCHANGED <<helperVars, sqlResponse, messages, inputValue, isTyping,
                 sqlQueries, files, isUploading, clock, ticks, timers>>

\* the request of generateTestScenarios is rejected
ScenariosReject ==
  /\ pc = "parser"
  /\ run.step = "awaitScenarios"
  /\ afterScenarios(reject(call), run)
  /\ UNCHANGED <<helperVars, sqlResponse, messages, inputValue, isTyping,
                 sqlQueries, files, isUploading, clock, ticks, timers>>

\* toggleSection (FileManager.tsx lines 123-128)
toggleSection(prev, section) == [prev EXCEPT ![section] = ~@]

\* onClick of the title of a section of KnowledgeViewer (lines 304, 321,
\* 338, 355), and the render that follows
ToggleSection ==
  /\ pc = "parser"
  /\ isMounted
  /\ ~isFalsy(knowledge)
  /\ \E section \in DOMAIN expandedSections :
       IF rendersApp(knowledge, toggleSection(expandedSections, section))
         THEN /\ expandedSections' =
                   toggleSection(expandedSections, section)
              /\ UNCHANGED <<knowledge, error, parsingStatus, isDragOver>>
       ELSE removeTree
  /\ UNCHANGED <<helperVars, call, sqlResponse, messages, inputValue,
                 isTyping, sqlQueries, files, isUploading, clock, ticks,
                 timers, run>>

NextParser ==
  \/ ToggleSection
  \/ ParserDragOver
  \/ ParserDragLeave
  \/ ParserDrop
  \/ ParserSelectFile
  \/ ReadResolves
  \/ ReadRejects
  \/ WorkbookResolves
  \/ WorkbookRejects
  \/ ScenariosResolve
  \/ ScenariosReject

SpecParser == InitParser /\ [][NextParser]_vars

\* every await of a call of parseExcelFile completes
SpecParserFair ==
  /\ SpecParser
  /\ WF_vars(ReadResolves \/ ReadRejects)
  /\ WF_vars(WorkbookResolves \/ WorkbookRejects)
  /\ WF_vars(ScenariosResolve \/ ScenariosReject)

\* C21: the content of a user's file never leaves the browser: no request
\* sent to the external service holds a cell value of the file (the
\* system message of a request is a fixed text).
FileContentStaysLocal ==
  pc = "parser" =>
    \A k \in 1..Len(run.requested) :
      \A i \in 1..Len(run.requested[k].messages) :
        run.requested[k].messages[i].role = "user" =>
          ~includes(run.requested[k].messages[i].content, CellValue)

\* the request of operation op, by its system prompt
isRequestOf(request, op) ==
  request.messages[1].content = requestOf(op, << >>).messages[1].content

\* value is the knowledge base parsed with its testScenarios replaced by
\* testScenarios
isWithScenarios(value, parsed, testScenarios) ==
  /\ value.t = parsed.t
  /\ value.t \in { "object", "array" }
  /\ value.t = "array" => value.items = parsed.items
  /\ member(value, TestScenariosKey) = testScenarios
  /\ \A i \in 1..Len(parsed.keys) :
       parsed.keys[i] # TestScenariosKey =>
         getProperty(value, parsed.keys[i]) = parsed.items[i]
  /\ \A i \in 1..Len(value.keys) :
       \/ value.keys[i] = TestScenariosKey
       \/ \E j \in 1..Len(parsed.keys) : parsed.keys[j] = value.keys[i]

\* C25: in parseExcelFile the request for the test scenarios is issued
\* only after parseExcelWorkbook has succeeded, and never once it has
\* failed; onKnowledgeParsed is called only after both operations have
\* succeeded, with the knowledge base whose testScenarios is the result
\* of the second.
ScenariosOnlyAfterWorkbook ==
  pc = "parser" =>
    /\ Len(run.requested) <= 2
    /\ Len(run.requested) >= 1 =>
         isRequestOf(run.requested[1], "parseExcelWorkbook")
    /\ Len(run.requested) = 2 =>
         /\ isRequestOf(run.requested[2], "generateTestScenarios")
         /\ Len(run.settled) >= 1
         /\ run.settled[1].kind = "return"
    /\ (Len(run.settled) >= 1 /\ run.settled[1].kind = "throw") =>
         /\ Len(run.requested) <= 1
         /\ Len(run.settled) = 1
    /\ (\E k \in 1..Len(run.callbacks) :
          run.callbacks[k] = "onKnowledgeParsed") =>
         /\ Len(run.settled) = 2
         /\ run.settled[1].kind = "return"
         /\ run.settled[2].kind = "return"
         /\ isWithScenarios(run.knowledge, run.settled[1].value,
                            run.settled[2].value)

\* both operations succeeded and the knowledge base was handed to App
ScenariosOnlyAfterWorkbookWitness ==
  /\ pc = "parser"
  /\ run.step = "done"
  /\ run.callbacks = << "onKnowledgeParsed" >>
  /\ Len(run.requested) = 2
  /\ run.settled[2].value.t = "array"
  /\ getProperty(run.knowledge, TestScenariosKey) = run.settled[2].value
  /\ getProperty(run.settled[1].value, TestScenariosKey)
       # run.settled[2].value
  /\ knowledge = run.knowledge

\* a call of parseExcelFile is in progress
isRunning == run.step \in { "reading", "awaitWorkbook", "awaitScenarios" }

\* while a call is in progress isParsing is set and no callback has been
\* called; once it has ended exactly one callback has been called and the
\* status matches it
OneCallbackPerRun ==
  pc = "parser" =>
    /\ isRunning => (run.callbacks = << >> /\ parsingStatus.isParsing)
    /\ run.step = "done" =>
         /\ ~parsingStatus.isParsing
         /\ \/ /\ run.callbacks = << "onKnowledgeParsed" >>
               /\ parsingStatus.progress = 100
               /\ ~parsingStatus.hasError
            \/ /\ run.callbacks = << "onError" >>
               /\ parsingStatus.progress = 0
               /\ parsingStatus.hasError
               /\ parsingStatus.error # << >>

\* C26: every call of parseExcelFile whose awaits complete ends with
\* exactly one of onKnowledgeParsed and onError called and isParsing
\* false; progress is 100 with no error after onKnowledgeParsed, 0 with
\* the error message set after onError.
EveryRunEndsWithOneCallback ==
  /\ []OneCallbackPerRun
  /\ (isRunning ~> run.step = "done")

\* the step calls onError, calls onKnowledgeParsed, or calls neither
ErrorAndKnowledgeStep ==
  IF run'.callbacks # run.callbacks /\ run'.callbacks # << >>
    THEN IF run'.callbacks[Len(run'.callbacks)] = "onError"
           THEN /\ error' # Null
                /\ error'.t = "string"
                /\ knowledge' = knowledge
           ELSE /\ error' = Null
                /\ knowledge' = run'.knowledge
                /\ knowledge' # Null
    ELSE UNCHANGED <<knowledge, error>>

\* C28: handleError sets error and leaves knowledge as it was;
\* handleKnowledgeParsed replaces knowledge and clears error; nothing
\* else changes either, so a failed parse after a successful one leaves
\* the earlier knowledge base in place next to the error, and the error
\* stays until a later parse succeeds.
ErrorKeepsKnowledge == [][ErrorAndKnowledgeStep]_vars

====
